---- MODULE Spec2Model ----
(***************************************************************************)
(* State-machine model of parts of the opcode desktop backend:             *)
(*   - the Mobile Sync sequence broker and its WebSocket fan-out           *)
(*     (mobile_sync/state_cache.rs, mobile_sync/server.rs),                *)
(*   - the agent-run supervisor and the agent_runs table                   *)
(*     (commands/agents.rs),                                               *)
(*   - the pairing-code claim handler (mobile_sync/server.rs),             *)
(*   - the usage index and its sync (usage_index/, commands/usage.rs),     *)
(*   - the provider binary discovery cache (agent_binary.rs),              *)
(*   - device authentication of Mobile Sync requests                       *)
(*     (mobile_sync/auth.rs, mobile_sync/server.rs),                       *)
(*   - the streaming UTF-8 decoder and the embedded terminals              *)
(*     (commands/terminal.rs),                                             *)
(*   - the provider argv builders (providers/, commands/agents.rs,         *)
(*     commands/agent_session.rs),                                         *)
(*   - the stream normalizer and the output fan-out of a run               *)
(*     (commands/agents.rs, commands/codex_transform.rs),                  *)
(*   - provider sessions and their cancellation                            *)
(*     (commands/provider_session.rs),                                     *)
(*   - the PTY of an embedded terminal and its session lock                *)
(*     (commands/terminal.rs),                                             *)
(*   - the execution requests of a web-server WebSocket connection         *)
(*     (web_server.rs).                                                    *)
(* Each part has its own specification (SyncSpec, RunSpec, PairSpec,       *)
(* UsageSpec, DiscoverSpec, AuthSpec, DecoderSpec, TermSpec, ArgvSpec,     *)
(* NormalizeSpec, StreamSpec, SessionSpec, PtySpec, WebSpec); the          *)
(* variables of the other parts stay unchanged under it.  RunLiveSpec,     *)
(* TermLiveSpec and DiscoverLiveSpec add the fairness of the scheduler;    *)
(* UsageResumeSpec adds transcripts of resumed sessions to UsageSpec.      *)
(***************************************************************************)
EXTENDS Integers, Sequences, FiniteSets, TLC

(***************************************************************************)
(* Bounds of the model.                                                    *)
(***************************************************************************)
\* Largest sequence number the broker hands out in a checked behaviour.
MaxSequence == 2
\* Largest number of sync.heartbeat envelopes one WebSocket loop sends.
MaxHeartbeats == 1
\* Largest `since` a connecting client passes.
MaxSince == 1

\* Envelopes the broadcast channel retains; it stands for the 512 of
\* broadcast::channel(512), a power of two, which the channel keeps as is.
BroadcastCapacity == 1

\* Number of first-output polls of the monitor task before it times out; it
\* stands for the 300 polls of 100 ms of the source.
MaxPolls == 2
\* Largest number of stdout lines a child writes.
MaxLines == 1
\* Largest number of kill_agent_session calls.
MaxKillCalls == 2
\* Last instant of the wall clock.
MaxClock == 3
\* Lifetime of a pairing code in clock ticks; it stands for the 5 minutes of
\* the source.
PairingTtl == 2

\* Largest number of lines of a transcript.
MaxFileLines == 2
\* Largest number of changes other programs make to the transcripts.
MaxEdits == 2
\* Lines per committed batch; it stands for COMMIT_EVERY_LINES = 5 000.
CommitEveryLines == 2
\* Length of every transcript line in bytes, its newline included.
LineBytes == 2

\* Last instant of the monotonic clock.
MaxInstant == 2
\* Lifetime of a discovery cache entry in clock ticks; it stands for
\* DISCOVERY_CACHE_TTL = 30 s.
DiscoveryCacheTtl == 2

\* Largest number of authenticated requests answered.
MaxAuthRequests == 2

\* Largest number of bytes of a stream fed to one Utf8StreamDecoder.
MaxStreamBytes == 4

\* Largest number of writes of a terminal's child to its PTY.
MaxPtyWrites == 2

\* Lines the child of the output fan-out writes to its two pipes together.
MaxPipeLines == 3

\* Provider session processes started and cancel_provider_session calls made.
MaxSessionProcs == 2
MaxCancelCalls == 1

\* The PTY of a terminal: room of the kernel's input and output queues, the
\* length of one input write, the number of input writes, the answer of
\* the shell to one byte.
PtyInputCapacity == 1
PtyOutputCapacity == 1
MaxWriteLen == 3
MaxInputCalls == 2
MaxEcho == 2

\* Execution requests sent on one web-server WebSocket connection.
MaxWebRequests == 2

\* Tasks that call publish_snapshot / publish_event concurrently.
PublisherTasks == {"p1", "p2"}
\* WebSocket connections.
WsClients == {"w1"}

VARIABLES
    \* ---- MobileSyncCache (state_cache.rs:13-19) ----
    sequence,            \* AtomicU64 sequence
    connected_clients,   \* AtomicUsize connected_clients
    snapshot,            \* RwLock<Option<SnapshotV1>>: its sequence, 0 for None
    event_tx,            \* every envelope sent on the broadcast channel, in send order
    allocations,         \* history: what each next_sequence call returned, in call order
    publisher,           \* per task: position inside publish_snapshot / publish_event
    \* ---- websocket_loop (server.rs:408-488) ----
    ws,                  \* per connection: position, since, receiver cursor, frames sent
    \* ---- agent supervisor (commands/agents.rs) ----
    agent_runs,          \* the agent_runs table: run id -> row
    db_lock,             \* holder of the AgentDb mutex across steps
    child,               \* the child process of each run
    stdout_task,         \* the stdout reader task of each run
    first_output,        \* the shared first_output flag of each run
    registry,            \* run ids with an entry in the process registry
    spawner,             \* position of execute_agent / spawn_agent_system
    monitor,             \* the monitor task of each run
    killer,              \* the caller of kill_agent_session
    cleanup,             \* the caller of cleanup_finished_processes
    complete_events,     \* payloads emitted on agent-complete:<run_id>
    cancelled_events,    \* number of agent-cancelled:<run_id> events
    kill_log,            \* history: one entry per returned kill_agent_session call
    \* ---- pairing (mobile_sync/server.rs) ----
    clock,               \* wall-clock time, Utc::now()
    pairing_codes,       \* the mobile_pairing_codes table: code -> row
    claim,               \* per pair/claim request: position, sampled time, response
    \* ---- usage index (usage_index/mod.rs, usage_index/sync.rs) ----
    transcripts,         \* the JSONL files on disk: path -> lines and mtime
    source_files,        \* the source_files table: path -> row
    usage_events,        \* the usage_events table: a set of rows
    is_running,          \* UsageIndexStateInner.is_running
    cancel_requested,    \* UsageIndexStateInner.cancel_requested
    usage_status,        \* UsageIndexStateInner.status
    sync_task,           \* per caller: position and locals of its call and sync
    stale,               \* history: path was truncated or rewritten since its scan began
    edits,               \* history: number of changes made to the transcripts
    prev_run,            \* history: how the last finished sync ended
    \* ---- binary discovery (agent_binary.rs) ----
    discovery_entries,   \* ProviderDiscoveryCacheState.entries: key -> entry
    in_flight,           \* ProviderDiscoveryCacheState.in_flight
    discover,            \* per discover_agent call: position and locals
    instant,             \* the monotonic clock, Instant::now()
    probes,              \* history: number of probes started
    \* ---- device authentication (mobile_sync/auth.rs, mobile_sync/server.rs) ----
    sync_enabled,        \* MobileSyncCache.enabled
    mobile_devices,      \* the mobile_devices table: id -> row
    auth_response,       \* the last answered request: request, status, device
    auth_requests,        \* history: number of requests answered
    \* ---- Utf8StreamDecoder (commands/terminal.rs) ----
    decoder,              \* one decoder and its stream: bytes written, unread, pending, text
    \* ---- embedded terminals (commands/terminal.rs) ----
    sessions,            \* EmbeddedTerminalState: the keys of the session map
    terminal,            \* per terminal id: session, child, PTY, reader thread, events
    tmux_sessions,       \* the sessions of the external tmux server
    closer,              \* per close_embedded_terminal call: position and locals
    \* ---- provider argv builders (providers/, commands/agents.rs, agent_session.rs) ----
    argv,                 \* the last argv built: builder, provider, model, result
    \* ---- stream normalizer (commands/agents.rs, commands/codex_transform.rs) ----
    normalized,           \* the last line normalized: provider, line, envelope, replay
    \* ---- output fan-out of one agent run (commands/agents.rs) ----
    stream,              \* the child's pipes and the positions of the two reader tasks
    channels,             \* live_output and the events emitted on each channel
    \* ---- provider sessions (commands/provider_session.rs) ----
    provider_session,   \* per started process: child, reader and wait tasks
    current_process,    \* ProviderSessionProcessState.current_process
    process_lock,       \* the wait task holding the current_process mutex
    session_registry,   \* processes registered as provider sessions
    session_events,     \* provider-session-complete:<sid> events emitted
    canceller,          \* the running cancel_provider_session call
    cancel_calls,        \* cancel_provider_session calls made
    \* ---- PTY of one embedded terminal (commands/terminal.rs) ----
    pty,                 \* session lock, kernel queues, write call, shell, reader thread
    \* ---- web server (web_server.rs) ----
    web_socket,         \* the connection and its entry in active_cancellations
    web_request         \* per execution request: task, child, watch channel value

syncVars == <<sequence, connected_clients, snapshot, event_tx, allocations, publisher, ws>>

runVars == <<agent_runs, db_lock, child, stdout_task, first_output, registry, spawner,
             monitor, killer, cleanup, complete_events, cancelled_events, kill_log>>

pairVars == <<clock, pairing_codes, claim>>

usageVars == <<transcripts, source_files, usage_events, is_running, cancel_requested,
               usage_status, sync_task, stale, edits, prev_run>>

discoverVars == <<discovery_entries, in_flight, discover, instant, probes>>

authVars == <<sync_enabled, mobile_devices, auth_response, auth_requests>>

decoderVars == <<decoder>>

termVars == <<sessions, terminal, tmux_sessions, closer>>

argvVars == <<argv>>

normalizeVars == <<normalized>>

streamVars == <<stream, channels>>

sessionVars == <<provider_session, current_process, process_lock, session_registry, session_events, canceller, cancel_calls>>

ptyVars == <<pty>>

webVars == <<web_socket, web_request>>

vars == <<syncVars, runVars, pairVars, usageVars, discoverVars, authVars, decoderVars, termVars, argvVars, normalizeVars, streamVars, sessionVars, ptyVars, webVars>>

nonSyncVars == <<runVars, pairVars, usageVars, discoverVars, authVars, decoderVars, termVars, argvVars, normalizeVars, streamVars, sessionVars, ptyVars, webVars>>
nonRunVars == <<syncVars, pairVars, usageVars, discoverVars, authVars, decoderVars, termVars, argvVars, normalizeVars, streamVars, sessionVars, ptyVars, webVars>>
nonPairVars == <<syncVars, runVars, usageVars, discoverVars, authVars, decoderVars, termVars, argvVars, normalizeVars, streamVars, sessionVars, ptyVars, webVars>>
nonUsageVars == <<syncVars, runVars, pairVars, discoverVars, authVars, decoderVars, termVars, argvVars, normalizeVars, streamVars, sessionVars, ptyVars, webVars>>
nonDiscoverVars == <<syncVars, runVars, pairVars, usageVars, authVars, decoderVars, termVars, argvVars, normalizeVars, streamVars, sessionVars, ptyVars, webVars>>
nonAuthVars == <<syncVars, runVars, pairVars, usageVars, discoverVars, decoderVars, termVars, argvVars, normalizeVars, streamVars, sessionVars, ptyVars, webVars>>
nonDecoderVars == <<syncVars, runVars, pairVars, usageVars, discoverVars, authVars, termVars, argvVars, normalizeVars, streamVars, sessionVars, ptyVars, webVars>>
nonTermVars == <<syncVars, runVars, pairVars, usageVars, discoverVars, authVars, decoderVars, argvVars, normalizeVars, streamVars, sessionVars, ptyVars, webVars>>
nonArgvVars == <<syncVars, runVars, pairVars, usageVars, discoverVars, authVars, decoderVars, termVars, normalizeVars, streamVars, sessionVars, ptyVars, webVars>>
nonNormalizeVars == <<syncVars, runVars, pairVars, usageVars, discoverVars, authVars, decoderVars, termVars, argvVars, streamVars, sessionVars, ptyVars, webVars>>
nonStreamVars == <<syncVars, runVars, pairVars, usageVars, discoverVars, authVars, decoderVars, termVars, argvVars, normalizeVars, sessionVars, ptyVars, webVars>>
nonSessionVars == <<syncVars, runVars, pairVars, usageVars, discoverVars, authVars, decoderVars, termVars, argvVars, normalizeVars, streamVars, ptyVars, webVars>>
nonPtyVars == <<syncVars, runVars, pairVars, usageVars, discoverVars, authVars, decoderVars, termVars, argvVars, normalizeVars, streamVars, sessionVars, webVars>>
nonWebVars == <<syncVars, runVars, pairVars, usageVars, discoverVars, authVars, decoderVars, termVars, argvVars, normalizeVars, streamVars, sessionVars, ptyVars>>

(***************************************************************************)
(* MobileSyncCache                                                         *)
(***************************************************************************)
NoSnapshot == 0

\* An envelope as the protocol defines it (version and generated_at carry no
\* behaviour and are left out).
Envelope(seq, type, payload) ==
    [sequence |-> seq, event_type |-> type, payload |-> payload]

\* current_sequence(): sequence.load()
current_sequence_ahead == sequence + 1
current_sequence == sequence

\* next_sequence(): fetch_add(1) + 1, as a function of the value fetch_add
\* read.  The counter itself becomes s + 1 in the same atomic step.
next_sequence_old_value(s) == s
next_sequence(s) == s + 1

IdlePublisher == [pc |-> "idle", snapshot_sequence |-> 0, envelope |-> Envelope(0, "", 0)]

\* publish_snapshot, first statement: build SnapshotV1 with next_sequence().
publish_snapshot_allocate(t) ==
    /\ publisher[t].pc = "idle"
    /\ sequence < MaxSequence
    /\ sequence' = sequence + 1
    /\ allocations' = Append(allocations,
           [sequence |-> next_sequence(sequence), kind |-> "snapshot",
            event_type |-> "", payload |-> 0, task |-> t])
    /\ publisher' = [publisher EXCEPT ![t] =
           [pc |-> "snapshot_store", snapshot_sequence |-> next_sequence(sequence),
            envelope |-> Envelope(0, "", 0)]]
    /\ UNCHANGED <<connected_clients, snapshot, event_tx, ws>>
    /\ UNCHANGED nonSyncVars

\* publish_snapshot, second statement: *guard = Some(snapshot) under the
\* write lock.
publish_snapshot_store(t) ==
    /\ publisher[t].pc = "snapshot_store"
    /\ snapshot' = publisher[t].snapshot_sequence
    /\ publisher' = [publisher EXCEPT ![t].pc = "snapshot_event"]
    /\ UNCHANGED <<sequence, connected_clients, event_tx, allocations, ws>>
    /\ UNCHANGED nonSyncVars

\* publish_event, first statement: build the envelope with next_sequence().
\* Called directly (a workspace event) or from publish_snapshot with
\* event_type snapshot.updated and payload {sequence: snapshot.sequence}.
publish_event_allocate(t) ==
    /\ publisher[t].pc \in {"idle", "snapshot_event"}
    /\ sequence < MaxSequence
    /\ LET type == IF publisher[t].pc = "idle" THEN "workspace.state_changed"
                   ELSE "snapshot.updated"
           payload == IF publisher[t].pc = "idle" THEN 0
                      ELSE publisher[t].snapshot_sequence
           seq == next_sequence(sequence)
       IN /\ sequence' = sequence + 1
          /\ allocations' = Append(allocations,
                 [sequence |-> seq, kind |-> "event", event_type |-> type,
                  payload |-> payload, task |-> t])
          /\ publisher' = [publisher EXCEPT ![t] =
                 [pc |-> "event_send",
                  snapshot_sequence |-> publisher[t].snapshot_sequence,
                  envelope |-> Envelope(seq, type, payload)]]
    /\ UNCHANGED <<connected_clients, snapshot, event_tx, ws>>
    /\ UNCHANGED nonSyncVars

\* publish_event, second statement: event_tx.send(envelope); the call (and a
\* publish_snapshot around it) returns.
publish_event_send(t) ==
    /\ publisher[t].pc = "event_send"
    /\ event_tx' = Append(event_tx, publisher[t].envelope)
    /\ publisher' = [publisher EXCEPT ![t] = IdlePublisher]
    /\ UNCHANGED <<sequence, connected_clients, snapshot, allocations, ws>>
    /\ UNCHANGED nonSyncVars

(***************************************************************************)
(* websocket_loop                                                          *)
(***************************************************************************)
\* requires_resnapshot(since, current_sequence); saturating_add cannot
\* saturate within the bounds.
requires_resnapshot(since, current) == since + 1 < current

LoopBuiltTypes == {"sync.heartbeat", "sync.resnapshot_required"}

Heartbeats(frames) ==
    Cardinality({i \in 1..Len(frames) : frames[i].event_type = "sync.heartbeat"})

\* setup is history: the number of envelopes sent before the connection
\* subscribed.
ClosedWs == [pc |-> "closed", since |-> 0, cursor |-> 0, setup |-> 0, sent |-> <<>>]

\* increment_clients(): fetch_add(1); decrement_clients(): fetch_sub(1).
increment_clients_none(n) == n
increment_clients(n) == n + 1
decrement_clients(n) == n - 1

\* event_tx.subscribe(): the position of a new receiver, which sees only
\* what is sent after the call.
subscribe_from_start(tx) == 0
subscribe(tx) == Len(tx)

\* event_receiver.recv() gives RecvError::Lagged when the sender has
\* overwritten the slot the receiver is to read next: the receiver is more
\* than the capacity behind the tail.
lagged_never(tail, next) == FALSE
lagged(tail, next) == tail - next > BroadcastCapacity

\* Entry of the loop: increment_clients(), subscribe().
websocket_enter(c) ==
    /\ ws[c].pc = "closed"
    /\ \E since \in 0..MaxSince :
          ws' = [ws EXCEPT ![c] =
              [pc |-> "check", since |-> since, cursor |-> subscribe(event_tx),
               setup |-> Len(event_tx), sent |-> <<>>]]
    /\ connected_clients' = increment_clients(connected_clients)
    /\ UNCHANGED <<sequence, snapshot, event_tx, allocations, publisher>>
    /\ UNCHANGED nonSyncVars

\* if requires_resnapshot(since, current_sequence()) { send resync }.  The
\* send fails when the peer is gone; the loop then decrements and returns.
websocket_resnapshot_check(c) ==
    /\ ws[c].pc = "check"
    /\ IF requires_resnapshot(ws[c].since, current_sequence)
       THEN \E sent_ok \in BOOLEAN :
              IF sent_ok
              THEN /\ ws' = [ws EXCEPT ![c].pc = "loop",
                                       ![c].sent = Append(@,
                                           Envelope(current_sequence,
                                                    "sync.resnapshot_required",
                                                    [reason |-> "sequence_gap",
                                                     since |-> ws[c].since]))]
                   /\ UNCHANGED connected_clients
              ELSE /\ ws' = [ws EXCEPT ![c].pc = "closed"]
                   /\ connected_clients' = decrement_clients(connected_clients)
       ELSE /\ ws' = [ws EXCEPT ![c].pc = "loop"]
            /\ UNCHANGED connected_clients
    /\ UNCHANGED <<sequence, snapshot, event_tx, allocations, publisher>>
    /\ UNCHANGED nonSyncVars

\* select! arm event_receiver.recv(): Ok(event) forwards the next envelope;
\* Err(Lagged) moves the receiver to the oldest envelope the channel still
\* holds and sends sync.resnapshot_required with reason subscriber_lagged.
websocket_forward(c) ==
    /\ ws[c].pc = "loop"
    /\ ws[c].cursor < Len(event_tx)
    /\ IF lagged(Len(event_tx), ws[c].cursor)
       THEN ws' = [ws EXCEPT ![c].cursor = Len(event_tx) - BroadcastCapacity,
                             ![c].sent = Append(@,
                                 Envelope(current_sequence, "sync.resnapshot_required",
                                          [reason |-> "subscriber_lagged"]))]
       ELSE ws' = [ws EXCEPT ![c].cursor = @ + 1,
                             ![c].sent = Append(@, event_tx[ws[c].cursor + 1])]
    /\ UNCHANGED <<sequence, connected_clients, snapshot, event_tx, allocations, publisher>>
    /\ UNCHANGED nonSyncVars

\* select! arm heartbeat_interval.tick(): sync.heartbeat with the current
\* sequence.
websocket_heartbeat(c) ==
    /\ ws[c].pc = "loop"
    /\ Heartbeats(ws[c].sent) < MaxHeartbeats
    /\ ws' = [ws EXCEPT ![c].sent =
                 Append(@, Envelope(current_sequence, "sync.heartbeat", 0))]
    /\ UNCHANGED <<sequence, connected_clients, snapshot, event_tx, allocations, publisher>>
    /\ UNCHANGED nonSyncVars

\* Any break out of the loop (client close, receive error, failed send),
\* followed by decrement_clients().
websocket_exit(c) ==
    /\ ws[c].pc = "loop"
    /\ ws' = [ws EXCEPT ![c].pc = "closed"]
    /\ connected_clients' = decrement_clients(connected_clients)
    /\ UNCHANGED <<sequence, snapshot, event_tx, allocations, publisher>>
    /\ UNCHANGED nonSyncVars

(***************************************************************************)
(* Agent supervisor: execute_agent, spawn_agent_system and its tasks       *)
(***************************************************************************)
\* The model follows one run of the agent_runs table.
RunIds == {1}
Providers == {"claude", "codex"}
TerminalStatuses == {"completed", "failed", "cancelled"}

\* Exit codes a child ends with by itself; Signalled stands for an ExitStatus
\* whose code() is None (the child was ended by a signal).
ExitCodes == {0, 1, 130, 143}
Signalled == -1
NullPid == 0
\* child.id() of the child of run r.
PidOf(r) == r

AbsentRow == [status |-> "absent", pid |-> NullPid, completed_at |-> FALSE,
              provider |-> "claude"]
NoChild == [state |-> "none", code |-> 0, written |-> 0]
IdleMonitor == [pc |-> "none", i |-> 0, exit_code |-> 0, wrote |-> "none",
                timed_out |-> FALSE]
IdleKiller == [pc |-> "idle", run |-> 0, killed_via_registry |-> FALSE,
               registry_changed |-> FALSE]
IdleCleanup == [pc |-> "idle", todo |-> {}, cleaned_up |-> {}, overwritten |-> {}]

\* INSERT INTO agent_runs (...): status and completed_at take their column
\* defaults, 'pending' and NULL.
InsertedRowRunning(provider) ==
    [status |-> "running", pid |-> NullPid, completed_at |-> FALSE, provider |-> provider]
InsertedRow(provider) ==
    [status |-> "pending", pid |-> NullPid, completed_at |-> FALSE, provider |-> provider]

\* UPDATE agent_runs SET status = 'running', pid = ?1, process_started_at = ?2
\* WHERE id = ?3
MarkRunning(row, pid) == [row EXCEPT !.status = "running", !.pid = pid]

\* UPDATE agent_runs SET ..., status = ?, completed_at = CURRENT_TIMESTAMP
\* WHERE id = ? AND status = 'running'     (monitor task, kill_agent_session)
FinalizeIfRunning(row, status) ==
    IF row.status = "running"
    THEN [row EXCEPT !.status = status, !.completed_at = TRUE]
    ELSE row

\* UPDATE agent_runs SET status = 'completed', completed_at = CURRENT_TIMESTAMP
\* WHERE id = ?1                           (cleanup_finished_processes)
CleanupMarkCompletedNoTimestamp(row) == [row EXCEPT !.status = "completed"]
CleanupMarkCompleted(row) == [row EXCEPT !.status = "completed", !.completed_at = TRUE]

\* AtomicBool::new(provider_id != "claude")
InitialFirstOutputAlwaysFalse(provider) == FALSE
InitialFirstOutput(provider) == provider # "claude"

\* if process_success { "completed" } else { "failed" }, with
\* process_success = status.success()
RunStatusFromExit(code) == IF code = 0 THEN "completed" ELSE "failed"

\* completion_status_from_exit_status of provider_session.rs and
\* agent_session.rs: the status field of the completion payload.
completion_status_from_exit_status(code) ==
    IF code = 0 THEN "success"
    ELSE IF code \in {130, 143} THEN "cancelled"
    ELSE "error"

\* A signal delivered to the pid: a live child ends, anything else stays.
Killed(c) == IF c.state = "alive" THEN [c EXCEPT !.state = "exited", !.code = Signalled]
             ELSE c

\* execute_agent: insert the run row.  Ids are handed out in order.
execute_agent_insert(r) ==
    /\ spawner[r] = "new"
    /\ db_lock = "free"
    /\ \A q \in RunIds : q < r => agent_runs[q].status # "absent"
    /\ \E provider \in Providers :
          agent_runs' = [agent_runs EXCEPT ![r] = InsertedRow(provider)]
    /\ spawner' = [spawner EXCEPT ![r] = "inserted"]
    /\ UNCHANGED <<db_lock, child, stdout_task, first_output, registry, monitor, killer,
                   cleanup, complete_events, cancelled_events, kill_log>>
    /\ UNCHANGED nonRunVars

\* spawn_agent_system: cmd.spawn(); on failure the error is returned.
spawn_child(r) ==
    /\ spawner[r] = "inserted"
    /\ \E spawned \in BOOLEAN :
          IF spawned
          THEN /\ child' = [child EXCEPT ![r] = [state |-> "alive", code |-> 0, written |-> 0]]
               /\ spawner' = [spawner EXCEPT ![r] = "spawned"]
          ELSE /\ spawner' = [spawner EXCEPT ![r] = "spawn_failed"]
               /\ UNCHANGED child
    /\ UNCHANGED <<agent_runs, db_lock, stdout_task, first_output, registry, monitor,
                   killer, cleanup, complete_events, cancelled_events, kill_log>>
    /\ UNCHANGED nonRunVars

\* spawn_agent_system: write status running and the pid under the db mutex.
spawn_mark_running(r) ==
    /\ spawner[r] = "spawned"
    /\ db_lock = "free"
    /\ agent_runs' = [agent_runs EXCEPT ![r] = MarkRunning(@, PidOf(r))]
    /\ spawner' = [spawner EXCEPT ![r] = "running"]
    /\ UNCHANGED <<db_lock, child, stdout_task, first_output, registry, monitor, killer,
                   cleanup, complete_events, cancelled_events, kill_log>>
    /\ UNCHANGED nonRunVars

\* spawn_agent_system: create the first_output flag, start the reader
\* tasks, register the run in the process registry, start the monitor task
\* and return the run id.
spawn_start_tasks(r) ==
    /\ spawner[r] = "running"
    /\ first_output' = [first_output EXCEPT ![r] = InitialFirstOutput(agent_runs[r].provider)]
    /\ stdout_task' = [stdout_task EXCEPT ![r] = [pc |-> "reading", read |-> 0]]
    /\ registry' = registry \cup {r}
    /\ monitor' = [monitor EXCEPT ![r].pc = "poll"]
    /\ spawner' = [spawner EXCEPT ![r] = "returned"]
    /\ UNCHANGED <<agent_runs, db_lock, child, killer, cleanup, complete_events,
                   cancelled_events, kill_log>>
    /\ UNCHANGED nonRunVars

\* spawn_agent_system returns an error after the spawn and before the
\* reader tasks exist: the db mutex is poisoned or the UPDATE fails (the row
\* stays pending), or taking the pipes or app_data_dir() fails (the row is
\* running).  The Child is dropped without kill_on_drop: the process lives on.
spawn_error_return(r) ==
    /\ spawner[r] \in {"spawned", "running"}
    /\ spawner[r] = "spawned" => db_lock = "free"
    /\ spawner' = [spawner EXCEPT ![r] = "error"]
    /\ UNCHANGED <<agent_runs, db_lock, child, stdout_task, first_output, registry,
                   monitor, killer, cleanup, complete_events, cancelled_events, kill_log>>
    /\ UNCHANGED nonRunVars

\* spawn_agent_system returns the error of register_sidecar_process: the
\* reader tasks run, the run is not registered and no monitor task starts.
spawn_register_error(r) ==
    /\ spawner[r] = "running"
    /\ first_output' = [first_output EXCEPT ![r] = InitialFirstOutput(agent_runs[r].provider)]
    /\ stdout_task' = [stdout_task EXCEPT ![r] = [pc |-> "reading", read |-> 0]]
    /\ spawner' = [spawner EXCEPT ![r] = "error"]
    /\ UNCHANGED <<agent_runs, db_lock, child, registry, monitor, killer, cleanup,
                   complete_events, cancelled_events, kill_log>>
    /\ UNCHANGED nonRunVars

\* The child writes a line to its stdout pipe.
child_write(r) ==
    /\ child[r].state = "alive"
    /\ child[r].written < MaxLines
    /\ child' = [child EXCEPT ![r].written = @ + 1]
    /\ UNCHANGED <<agent_runs, db_lock, stdout_task, first_output, registry, spawner,
                   monitor, killer, cleanup, complete_events, cancelled_events, kill_log>>
    /\ UNCHANGED nonRunVars

\* The child exits by itself.
child_exit(r) ==
    /\ child[r].state = "alive"
    /\ \E code \in ExitCodes :
          child' = [child EXCEPT ![r].state = "exited", ![r].code = code]
    /\ UNCHANGED <<agent_runs, db_lock, stdout_task, first_output, registry, spawner,
                   monitor, killer, cleanup, complete_events, cancelled_events, kill_log>>
    /\ UNCHANGED nonRunVars

\* After the monitor task ended without waiting for the child, the runtime
\* reaps the exited child.
child_reap_orphan(r) ==
    /\ child[r].state = "exited"
    /\ monitor[r].pc = "done" \/ spawner[r] = "error"
    /\ child' = [child EXCEPT ![r].state = "reaped"]
    /\ UNCHANGED <<agent_runs, db_lock, stdout_task, first_output, registry, spawner,
                   monitor, killer, cleanup, complete_events, cancelled_events, kill_log>>
    /\ UNCHANGED nonRunVars

\* stdout task: lines.next_line() returned a line; the first one sets
\* first_output.
stdout_read(r) ==
    /\ stdout_task[r].pc = "reading"
    /\ stdout_task[r].read < child[r].written
    /\ stdout_task' = [stdout_task EXCEPT ![r].read = @ + 1]
    /\ first_output' = [first_output EXCEPT ![r] = TRUE]
    /\ UNCHANGED <<agent_runs, db_lock, child, registry, spawner, monitor, killer, cleanup,
                   complete_events, cancelled_events, kill_log>>
    /\ UNCHANGED nonRunVars

\* stdout task: end of file, once the child is gone and the pipe is drained.
stdout_eof(r) ==
    /\ stdout_task[r].pc = "reading"
    /\ child[r].state \in {"exited", "reaped"}
    /\ stdout_task[r].read = child[r].written
    /\ stdout_task' = [stdout_task EXCEPT ![r].pc = "done"]
    /\ UNCHANGED <<agent_runs, db_lock, child, first_output, registry, spawner, monitor,
                   killer, cleanup, complete_events, cancelled_events, kill_log>>
    /\ UNCHANGED nonRunVars

\* monitor task, one iteration of `for i in 0..300`: leave the loop when
\* first_output is set; on the last iteration signal the pid and mark the
\* row failed through the task's own connection; otherwise sleep.
monitor_poll(r) ==
    /\ monitor[r].pc = "poll"
    /\ IF first_output[r]
       THEN /\ monitor' = [monitor EXCEPT ![r].pc = "join"]
            /\ UNCHANGED <<agent_runs, child>>
       ELSE IF monitor[r].i = MaxPolls - 1
       THEN /\ \E term_ends_child \in BOOLEAN :
                  child' = [child EXCEPT ![r] = IF term_ends_child THEN Killed(@) ELSE @]
            /\ agent_runs' = [agent_runs EXCEPT ![r] = FinalizeIfRunning(@, "failed")]
            /\ monitor' = [monitor EXCEPT
                   ![r].pc = "timeout_finish",
                   ![r].timed_out = TRUE,
                   ![r].wrote = IF agent_runs[r].status = "running" THEN "failed" ELSE "none"]
       ELSE /\ monitor' = [monitor EXCEPT ![r].i = @ + 1]
            /\ UNCHANGED <<agent_runs, child>>
    /\ UNCHANGED <<db_lock, stdout_task, first_output, registry, spawner, killer, cleanup,
                   complete_events, cancelled_events, kill_log>>
    /\ UNCHANGED nonRunVars

\* monitor task, end of the timeout branch: unregister_process, emit
\* agent-complete false, return.
monitor_timeout_finish(r) ==
    /\ monitor[r].pc = "timeout_finish"
    /\ registry' = registry \ {r}
    /\ complete_events' = [complete_events EXCEPT ![r] = Append(@, FALSE)]
    /\ monitor' = [monitor EXCEPT ![r].pc = "done"]
    /\ UNCHANGED <<agent_runs, db_lock, child, stdout_task, first_output, spawner, killer,
                   cleanup, cancelled_events, kill_log>>
    /\ UNCHANGED nonRunVars

\* monitor task: stdout_task.await, stderr_task.await, child.wait().
monitor_wait(r) ==
    /\ monitor[r].pc = "join"
    /\ stdout_task[r].pc = "done"
    /\ child[r].state = "exited"
    /\ child' = [child EXCEPT ![r].state = "reaped"]
    /\ monitor' = [monitor EXCEPT ![r].pc = "finalize", ![r].exit_code = child[r].code]
    /\ UNCHANGED <<agent_runs, db_lock, stdout_task, first_output, registry, spawner,
                   killer, cleanup, complete_events, cancelled_events, kill_log>>
    /\ UNCHANGED nonRunVars

\* monitor task: the final UPDATE ... WHERE id = ? AND status = 'running',
\* through the task's own connection.
monitor_finalize(r) ==
    /\ monitor[r].pc = "finalize"
    /\ agent_runs' = [agent_runs EXCEPT
           ![r] = FinalizeIfRunning(@, RunStatusFromExit(monitor[r].exit_code))]
    /\ monitor' = [monitor EXCEPT
           ![r].pc = "finish",
           ![r].wrote = IF agent_runs[r].status = "running"
                        THEN RunStatusFromExit(monitor[r].exit_code) ELSE "none"]
    /\ UNCHANGED <<db_lock, child, stdout_task, first_output, registry, spawner, killer,
                   cleanup, complete_events, cancelled_events, kill_log>>
    /\ UNCHANGED nonRunVars

\* monitor task: unregister_process, emit agent-complete process_success.
monitor_finish(r) ==
    /\ monitor[r].pc = "finish"
    /\ registry' = registry \ {r}
    /\ complete_events' = [complete_events EXCEPT
           ![r] = Append(@, monitor[r].exit_code = 0)]
    /\ monitor' = [monitor EXCEPT ![r].pc = "done"]
    /\ UNCHANGED <<agent_runs, db_lock, child, stdout_task, first_output, spawner, killer,
                   cleanup, cancelled_events, kill_log>>
    /\ UNCHANGED nonRunVars

(***************************************************************************)
(* Process registry (crate::process): kill by run id, kill by pid          *)
(***************************************************************************)
\* registry.kill_process(run_id): Ok(false) when the run has no entry.  With
\* an entry the pid is signalled (TERM, then KILL); the call reports
\* success when it ended a live process, and either outcome when the
\* process had already exited.
RegistryKillResult(found, alive, reported) == found /\ (alive \/ reported)

\* The registry after kill_process / kill_process_by_pid for run r: the
\* entry is either dropped by the kill or left for unregister_process.
RegistryAfterKill(r, removed) == IF removed THEN registry \ {r} ELSE registry

(***************************************************************************)
(* kill_agent_session                                                      *)
(***************************************************************************)
KillLogEntry(r, ok, emitted, row_changed, registry_changed) ==
    [run |-> r, ok |-> ok, emitted |-> emitted, row_changed |-> row_changed,
     registry_changed |-> registry_changed]

\* First statement: registry.kill_process(run_id).await.
kill_agent_session_begin(r) ==
    /\ killer.pc = "idle"
    /\ Len(kill_log) < MaxKillCalls
    /\ \E reported, removed \in BOOLEAN :
          LET found == r \in registry
              result == RegistryKillResult(found, child[r].state = "alive", reported)
          IN /\ child' = [child EXCEPT ![r] = IF found THEN Killed(@) ELSE @]
             /\ registry' = RegistryAfterKill(r, found /\ removed)
             /\ killer' = [pc |-> IF result THEN "update" ELSE "lookup",
                           run |-> r,
                           killed_via_registry |-> result,
                           registry_changed |-> found /\ removed]
    /\ UNCHANGED <<agent_runs, db_lock, stdout_task, first_output, spawner, monitor,
                   cleanup, complete_events, cancelled_events, kill_log>>
    /\ UNCHANGED nonRunVars

\* Fallback: SELECT pid ... WHERE id = ?1 AND status = 'running' under the db
\* mutex (no row: the error is returned), then kill_process_by_pid, whose
\* error is returned too.
kill_agent_session_fallback ==
    LET r == killer.run IN
    /\ killer.pc = "lookup"
    /\ db_lock = "free"
    /\ IF agent_runs[r].status = "running"
       THEN \E failed, removed \in BOOLEAN :
              IF failed
              THEN /\ kill_log' = Append(kill_log,
                          KillLogEntry(r, FALSE, FALSE, FALSE, killer.registry_changed))
                   /\ killer' = IdleKiller
                   /\ UNCHANGED <<child, registry>>
              ELSE /\ child' = [child EXCEPT ![r] = Killed(@)]
                   /\ registry' = RegistryAfterKill(r, removed)
                   /\ killer' = [killer EXCEPT
                          !.pc = "update",
                          !.registry_changed = @ \/ (removed /\ r \in registry)]
                   /\ UNCHANGED kill_log
       ELSE /\ kill_log' = Append(kill_log,
                   KillLogEntry(r, FALSE, FALSE, FALSE, killer.registry_changed))
            /\ killer' = IdleKiller
            /\ UNCHANGED <<child, registry>>
    /\ UNCHANGED <<agent_runs, db_lock, stdout_task, first_output, spawner, monitor,
                   cleanup, complete_events, cancelled_events>>
    /\ UNCHANGED nonRunVars

\* UPDATE ... SET status = 'cancelled' ... WHERE id = ?1 AND status = 'running'
\* under the db mutex, emit agent-cancelled:<run_id>, return
\* Ok(updated > 0 || killed_via_registry).
kill_agent_session_update ==
    LET r == killer.run IN
    /\ killer.pc = "update"
    /\ db_lock = "free"
    /\ agent_runs' = [agent_runs EXCEPT ![r] = FinalizeIfRunning(@, "cancelled")]
    /\ cancelled_events' = [cancelled_events EXCEPT ![r] = @ + 1]
    /\ kill_log' = Append(kill_log,
           KillLogEntry(r, TRUE, TRUE,
                        agent_runs[r] # FinalizeIfRunning(agent_runs[r], "cancelled"),
                        killer.registry_changed))
    /\ killer' = IdleKiller
    /\ UNCHANGED <<db_lock, child, stdout_task, first_output, registry, spawner, monitor,
                   cleanup, complete_events>>
    /\ UNCHANGED nonRunVars

(***************************************************************************)
(* cleanup_finished_processes                                              *)
(***************************************************************************)
\* SELECT id, pid FROM agent_runs WHERE status = 'running' AND pid IS NOT NULL
SelectRunning ==
    {r \in RunIds : agent_runs[r].status = "running" /\ agent_runs[r].pid # NullPid}

\* kill -0 <pid>: succeeds while the process exists, exited but not yet
\* waited for included.
IsRunning(r) == child[r].state \in {"alive", "exited"}

Lowest(S) == CHOOSE r \in S : \A q \in S : r <= q

\* Take the db mutex and read the running rows.
cleanup_select ==
    /\ cleanup.pc = "idle"
    /\ db_lock = "free"
    /\ db_lock' = "cleanup"
    /\ cleanup' = [pc |-> "scan", todo |-> SelectRunning, cleaned_up |-> {},
                   overwritten |-> {}]
    /\ UNCHANGED <<agent_runs, child, stdout_task, first_output, registry, spawner,
                   monitor, killer, complete_events, cancelled_events, kill_log>>
    /\ UNCHANGED nonRunVars

\* One iteration of the loop over the rows read: probe the pid and, if it is
\* gone, mark the row completed.
cleanup_probe ==
    /\ cleanup.pc = "scan"
    /\ cleanup.todo # {}
    /\ LET r == Lowest(cleanup.todo) IN
          IF IsRunning(r)
          THEN /\ cleanup' = [cleanup EXCEPT !.todo = @ \ {r}]
               /\ UNCHANGED agent_runs
          ELSE /\ agent_runs' = [agent_runs EXCEPT ![r] = CleanupMarkCompleted(@)]
               /\ cleanup' = [cleanup EXCEPT
                      !.todo = @ \ {r},
                      !.cleaned_up = @ \cup {r},
                      !.overwritten = IF agent_runs[r].status # "running"
                                      THEN @ \cup {r} ELSE @]
    /\ UNCHANGED <<db_lock, child, stdout_task, first_output, registry, spawner, monitor,
                   killer, complete_events, cancelled_events, kill_log>>
    /\ UNCHANGED nonRunVars

\* Ok(cleaned_up): the mutex guard is dropped.
cleanup_return ==
    /\ cleanup.pc = "scan"
    /\ cleanup.todo = {}
    /\ cleanup' = [cleanup EXCEPT !.pc = "idle"]
    /\ db_lock' = "free"
    /\ UNCHANGED <<agent_runs, child, stdout_task, first_output, registry, spawner,
                   monitor, killer, complete_events, cancelled_events, kill_log>>
    /\ UNCHANGED nonRunVars

(***************************************************************************)
(* Pairing: pair_start_handler, pair_claim_handler                         *)
(***************************************************************************)
\* The codes generate_pairing_code can return; code is the primary key of
\* mobile_pairing_codes.
PairCodes == {"A1B2C3", "D4E5F6"}
\* The pair/claim requests in flight.
ClaimRequests == {"q1", "q2"}

NoCode == [present |-> FALSE, expires_at |-> 0, claimed |-> 0]
IdleClaim == [pc |-> "idle", code |-> "", now |-> 0, response |-> "none"]

\* The checks of pair_claim_handler on the row it read: claimed must be 0
\* and expires_at must lie after the handler's `now`.
ClaimRejectionIgnoringClaimed(row, now) ==
    IF ~row.present THEN "invalid"
    ELSE IF row.expires_at <= now THEN "expired"
    ELSE "none"
ClaimRejection(row, now) ==
    IF ~row.present THEN "invalid"
    ELSE IF row.claimed # 0 THEN "used"
    ELSE IF row.expires_at <= now THEN "expired"
    ELSE "none"

\* Time passes.
clock_tick ==
    /\ clock < MaxClock
    /\ clock' = clock + 1
    /\ UNCHANGED <<pairing_codes, claim>>
    /\ UNCHANGED nonPairVars

\* pair_start_handler / mobile_sync_start_pairing: INSERT the code with
\* expires_at = now + 5 minutes, claimed = 0.  A code that is already in the
\* table violates the primary key and the handler returns the error.
pair_start(code) ==
    /\ db_lock = "free"
    /\ ~pairing_codes[code].present
    /\ pairing_codes' = [pairing_codes EXCEPT
           ![code] = [present |-> TRUE, expires_at |-> clock + PairingTtl, claimed |-> 0]]
    /\ UNCHANGED <<clock, claim>>
    /\ UNCHANGED nonPairVars

\* pair_claim_handler up to `let now = Utc::now()`.
pair_claim_begin(q) ==
    /\ claim[q].pc = "idle"
    /\ \E code \in PairCodes :
          claim' = [claim EXCEPT ![q] =
              [pc |-> "sampled", code |-> code, now |-> clock, response |-> "none"]]
    /\ UNCHANGED <<clock, pairing_codes>>
    /\ UNCHANGED nonPairVars

\* pair_claim_handler, the block under the db mutex: SELECT the row, reject
\* it if it is missing, claimed or expired, else UPDATE claimed = 1.
pair_claim_commit(q) ==
    /\ claim[q].pc = "sampled"
    /\ db_lock = "free"
    /\ LET code == claim[q].code
           rejection == ClaimRejection(pairing_codes[code], claim[q].now)
       IN IF rejection = "none"
          THEN /\ pairing_codes' = [pairing_codes EXCEPT ![code].claimed = 1]
               /\ claim' = [claim EXCEPT ![q].pc = "claimed"]
          ELSE /\ claim' = [claim EXCEPT ![q].pc = "done", ![q].response = rejection]
               /\ UNCHANGED pairing_codes
    /\ UNCHANGED clock
    /\ UNCHANGED nonPairVars

\* pair_claim_handler, after the block: create_device_token and the
\* response; a failure to create the token is answered with status 500.
pair_claim_respond(q) ==
    /\ claim[q].pc = "claimed"
    /\ \E token_created \in BOOLEAN :
          claim' = [claim EXCEPT
              ![q].pc = "done",
              ![q].response = IF token_created THEN "ok" ELSE "server_error"]
    /\ UNCHANGED <<clock, pairing_codes>>
    /\ UNCHANGED nonPairVars

(***************************************************************************)
(* Usage index: start_usage_index_sync, run_usage_index_sync, process_file *)
(***************************************************************************)
\* The transcripts under ~/.claude/projects, in the order files.sort() gives.
SortedPaths == <<"a.jsonl", "b.jsonl">>
SourcePaths == {SortedPaths[i] : i \in 1..Len(SortedPaths)}
\* Callers of the start_usage_index_sync command.
SyncCallers == {"u1", "u2"}

\* What a transcript line holds: a usage entry without message id / request
\* id, a line that is no JSON, a line whose bytes are no UTF-8.
LineKinds == {"usage", "invalid_json", "invalid_utf8"}

\* metadata.len() and metadata.modified() of a transcript.
file_size_bytes(f) == Len(f.lines) * LineBytes
file_mtime_unix_ms(f) == f.mtime

\* load_source_file_row: None, or the row of the path.
NoSourceFileRow ==
    [present |-> FALSE, size_bytes |-> 0, modified_unix_ms |-> 0, last_offset |-> 0,
     last_line |-> 0, parse_error_count |-> 0]

\* The row upsert_source_file_row writes (last_scanned_at carries no
\* behaviour and is left out).
upsert_source_file_row(size_bytes, modified_unix_ms, last_offset, last_line, parse_error_count) ==
    [present |-> TRUE, size_bytes |-> size_bytes, modified_unix_ms |-> modified_unix_ms,
     last_offset |-> last_offset, last_line |-> last_line,
     parse_error_count |-> parse_error_count]

\* let truncated = size_bytes < row.last_offset;
truncated_never(size_bytes, row) == FALSE
truncated(size_bytes, row) == size_bytes < row.last_offset

\* let rewritten_same_size = size_bytes == row.size_bytes
\*                           && modified_unix_ms != row.modified_unix_ms;
rewritten_same_size_any_mtime(size_bytes, modified_unix_ms, row) ==
    size_bytes = row.size_bytes
rewritten_same_size(size_bytes, modified_unix_ms, row) ==
    size_bytes = row.size_bytes /\ modified_unix_ms # row.modified_unix_ms

\* A line that parse_usage_event turns into an event: a usage entry without
\* ids, or the usage entry with message id and request id that a resumed
\* session repeats in its own transcript.
IsUsageLine(kind) == kind \in {"usage", "usage_mr"}

\* parse_usage_event, the Ok(Some(event)) result: event_uid is
\* format!("mr:{}:{}", message_id, request_id) for an entry with both ids and
\* format!("ln:{}:{}", source_path, source_line) otherwise.
parse_usage_event(kind, source_path, source_line) ==
    [event_uid |-> IF kind = "usage_mr" THEN <<"mr", "msg_1:req_1", 0>>
                   ELSE <<"ln", source_path, source_line>>,
     source_path |-> source_path,
     source_line |-> source_line]

\* INSERT OR IGNORE INTO usage_events: the row is inserted unless a row with
\* its event_uid is visible to the transaction.
insert_usage_event(visible, event) ==
    \A row \in visible : row.event_uid # event.event_uid

\* reader.read_line(&mut line): the bytes read (0 at end of file) and what
\* the line holds.  Every line of the model is LineBytes long.
read_line(f, offset) ==
    IF offset >= file_size_bytes(f)
    THEN [bytes_read |-> 0, kind |-> "eof"]
    ELSE [bytes_read |-> LineBytes, kind |-> f.lines[(offset \div LineBytes) + 1]]

\* remove_deleted_files: the rows of paths that are no longer listed go.
remove_deleted_files_rows(rows, existing_paths) ==
    [p \in SourcePaths |-> IF p \in existing_paths THEN rows[p] ELSE NoSourceFileRow]
remove_deleted_files_events(events, existing_paths) ==
    {row \in events : row.source_path \in existing_paths}

\* UsageIndexStatus: state and cancelled (the counters carry no behaviour).
DefaultStatus == [state |-> "idle", cancelled |-> FALSE]

\* UsageIndexState::try_start: compare_exchange(false, true).is_ok()
try_start_always(running) == TRUE
try_start(running) == running = FALSE

NoSyncTask ==
    [pc |-> "new", todo |-> <<>>, path |-> "", size_bytes |-> 0, modified_unix_ms |-> 0,
     base_parse_errors |-> 0, start_offset |-> 0, start_line |-> 0,
     current_offset |-> 0, current_line |-> 0, batch_lines |-> 0, parse_errors |-> 0,
     tx |-> {}, cancelled |-> FALSE, failed |-> FALSE, entries_indexed |-> 0,
     edits_at_start |-> 0,
     cancel_seen |-> FALSE]  \* history: a read loop left through its cancel check

\* The (last_offset, last_line) both upserts of process_file store.
CommitCursorAtStart(task) ==
    [last_offset |-> task.start_offset, last_line |-> task.start_line]
CommitCursor(task) ==
    [last_offset |-> task.current_offset, last_line |-> task.current_line]

\* upsert_source_file_row(&tx, ...) followed by tx.commit().
CommittedRow(task) ==
    upsert_source_file_row(task.size_bytes, task.modified_unix_ms,
                           CommitCursor(task).last_offset, CommitCursor(task).last_line,
                           task.base_parse_errors + task.parse_errors)

\* Another program appends a whole line to a transcript.
transcript_append(p, k) ==
    /\ edits < MaxEdits
    /\ Len(transcripts[p].lines) < MaxFileLines
    /\ edits' = edits + 1
    /\ transcripts' = [transcripts EXCEPT ![p] =
           [lines |-> Append(@.lines, k), mtime |-> edits + 1]]
    /\ UNCHANGED <<source_files, usage_events, is_running, cancel_requested,
                   usage_status, sync_task, stale, prev_run>>
    /\ UNCHANGED nonUsageVars

\* A resumed session: the usage entry of the session it continues (with its
\* message id and request id) is written to both transcripts.
transcript_append_resumed ==
    /\ edits < MaxEdits
    /\ \A p \in SourcePaths : Len(transcripts[p].lines) < MaxFileLines
    /\ edits' = edits + 1
    /\ transcripts' = [p \in SourcePaths |->
           [lines |-> Append(transcripts[p].lines, "usage_mr"), mtime |-> edits + 1]]
    /\ UNCHANGED <<source_files, usage_events, is_running, cancel_requested,
                   usage_status, sync_task, stale, prev_run>>
    /\ UNCHANGED nonUsageVars

\* Another program truncates a transcript to nothing.
transcript_truncate(p) ==
    /\ edits < MaxEdits
    /\ Len(transcripts[p].lines) > 0
    /\ edits' = edits + 1
    /\ transcripts' = [transcripts EXCEPT ![p] = [lines |-> <<>>, mtime |-> edits + 1]]
    /\ stale' = [stale EXCEPT ![p] = TRUE]
    /\ UNCHANGED <<source_files, usage_events, is_running, cancel_requested,
                   usage_status, sync_task, prev_run>>
    /\ UNCHANGED nonUsageVars

\* Another program rewrites one line of a transcript in place, leaving the
\* size as it was.
transcript_rewrite(p, i, k) ==
    /\ edits < MaxEdits
    /\ i \in 1..Len(transcripts[p].lines)
    /\ transcripts[p].lines[i] # k
    /\ edits' = edits + 1
    /\ transcripts' = [transcripts EXCEPT ![p] =
           [lines |-> [@.lines EXCEPT ![i] = k], mtime |-> edits + 1]]
    /\ stale' = [stale EXCEPT ![p] = TRUE]
    /\ UNCHANGED <<source_files, usage_events, is_running, cancel_requested,
                   usage_status, sync_task, prev_run>>
    /\ UNCHANGED nonUsageVars

\* start_usage_index_sync, first statement: if !state.try_start() { return
\* Ok(state.snapshot()) }.
start_usage_index_sync_try(t) ==
    /\ sync_task[t].pc = "new"
    /\ IF try_start(is_running)
       THEN /\ is_running' = TRUE
            /\ sync_task' = [sync_task EXCEPT ![t].pc = "mark_started"]
       ELSE /\ sync_task' = [sync_task EXCEPT ![t].pc = "busy"]
            /\ UNCHANGED is_running
    /\ UNCHANGED <<transcripts, source_files, usage_events, cancel_requested,
                   usage_status, stale, edits, prev_run>>
    /\ UNCHANGED nonUsageVars

\* start_usage_index_sync, after try_start: state.mark_started(0), which
\* clears the cancel flag and sets the status, then spawn_blocking.
start_usage_index_sync_spawn(t) ==
    /\ sync_task[t].pc = "mark_started"
    /\ cancel_requested' = FALSE
    /\ usage_status' = [state |-> "indexing", cancelled |-> FALSE]
    /\ sync_task' = [sync_task EXCEPT ![t].pc = "list"]
    /\ UNCHANGED <<transcripts, source_files, usage_events, is_running, stale, edits,
                   prev_run>>
    /\ UNCHANGED nonUsageVars

\* cancel_usage_index_sync: state.request_cancel().
cancel_usage_index_sync ==
    /\ cancel_requested = FALSE
    /\ cancel_requested' = TRUE
    /\ UNCHANGED <<transcripts, source_files, usage_events, is_running, usage_status,
                   sync_task, stale, edits, prev_run>>
    /\ UNCHANGED nonUsageVars

\* run_usage_index_sync up to its for loop: list_usage_jsonl_files and
\* remove_deleted_files.
run_usage_index_sync_list(t) ==
    /\ sync_task[t].pc = "list"
    /\ source_files' = remove_deleted_files_rows(source_files, SourcePaths)
    /\ usage_events' = remove_deleted_files_events(usage_events, SourcePaths)
    /\ sync_task' = [sync_task EXCEPT ![t].pc = "next_file", ![t].todo = SortedPaths,
                                      ![t].edits_at_start = edits]
    /\ UNCHANGED <<transcripts, is_running, cancel_requested, usage_status, stale, edits,
                   prev_run>>
    /\ UNCHANGED nonUsageVars

\* One turn of the for loop of run_usage_index_sync: the cancel check, then
\* process_file up to its read loop (metadata, the stored row, the reset of
\* a truncated or rewritten file, open and seek, the transaction).
run_usage_index_sync_next_file(t) ==
    /\ sync_task[t].pc = "next_file"
    /\ IF sync_task[t].todo = <<>>
       THEN /\ sync_task' = [sync_task EXCEPT ![t].pc = "finish"]
            /\ UNCHANGED <<source_files, usage_events, stale>>
       ELSE IF cancel_requested
       THEN /\ sync_task' = [sync_task EXCEPT ![t].pc = "finish", ![t].cancelled = TRUE]
            /\ UNCHANGED <<source_files, usage_events, stale>>
       ELSE LET p == Head(sync_task[t].todo)
                size_bytes == file_size_bytes(transcripts[p])
                modified_unix_ms == file_mtime_unix_ms(transcripts[p])
                existing == source_files[p]
                reset == /\ existing.present
                         /\ \/ truncated(size_bytes, existing)
                            \/ rewritten_same_size(size_bytes, modified_unix_ms, existing)
                resume == existing.present /\ ~reset
            IN /\ source_files' = IF reset THEN [source_files EXCEPT ![p] = NoSourceFileRow]
                                  ELSE source_files
               /\ usage_events' = IF reset
                                  THEN {row \in usage_events : row.source_path # p}
                                  ELSE usage_events
               /\ stale' = IF resume THEN stale ELSE [stale EXCEPT ![p] = FALSE]
               /\ sync_task' = [sync_task EXCEPT ![t] =
                      [@ EXCEPT !.pc = "read", !.todo = Tail(@), !.path = p,
                                !.size_bytes = size_bytes,
                                !.modified_unix_ms = modified_unix_ms,
                                !.base_parse_errors =
                                    IF resume THEN existing.parse_error_count ELSE 0,
                                !.start_offset = IF resume THEN existing.last_offset ELSE 0,
                                !.start_line = IF resume THEN existing.last_line ELSE 0,
                                !.current_offset = IF resume THEN existing.last_offset ELSE 0,
                                !.current_line = IF resume THEN existing.last_line ELSE 0,
                                !.batch_lines = 0, !.parse_errors = 0, !.tx = {}]]
    /\ UNCHANGED <<transcripts, is_running, cancel_requested, usage_status, edits, prev_run>>
    /\ UNCHANGED nonUsageVars

\* The task after process_file returned Ok: its locals are gone.
AfterFile(task) ==
    [task EXCEPT !.pc = "next_file", !.path = "", !.size_bytes = 0,
                 !.modified_unix_ms = 0, !.base_parse_errors = 0, !.start_offset = 0,
                 !.start_line = 0, !.current_offset = 0, !.current_line = 0,
                 !.batch_lines = 0, !.parse_errors = 0, !.tx = {}]

\* One turn of the read loop of process_file.  The cancel check and the end
\* of the file break to the final upsert and commit; a line that is no UTF-8
\* makes read_line fail, and the error leaves process_file and
\* run_usage_index_sync through `?` with the open transaction rolled back.
process_file_read(t) ==
    /\ sync_task[t].pc = "read"
    /\ LET task == sync_task[t]
           p == task.path
           r == read_line(transcripts[p], task.current_offset)
           advanced == [task EXCEPT !.current_offset = @ + r.bytes_read,
                                    !.current_line = @ + 1, !.batch_lines = @ + 1]
           event == parse_usage_event(r.kind, p, advanced.current_line)
           inserted == IsUsageLine(r.kind)
                       /\ insert_usage_event(usage_events \cup task.tx, event)
           parsed == [advanced EXCEPT
                         !.tx = IF inserted THEN @ \cup {event} ELSE @,
                         !.entries_indexed = IF inserted THEN @ + 1 ELSE @,
                         !.parse_errors = IF r.kind = "invalid_json" THEN @ + 1 ELSE @]
       IN IF cancel_requested \/ r.bytes_read = 0
          THEN /\ source_files' = [source_files EXCEPT ![p] = CommittedRow(task)]
               /\ usage_events' = usage_events \cup task.tx
               /\ sync_task' = [sync_task EXCEPT ![t] =
                      AfterFile([task EXCEPT !.cancel_seen = @ \/ cancel_requested])]
          ELSE IF r.kind = "invalid_utf8"
          THEN /\ sync_task' = [sync_task EXCEPT ![t] =
                      [AfterFile(task) EXCEPT !.pc = "finish", !.failed = TRUE]]
               /\ UNCHANGED <<source_files, usage_events>>
          ELSE IF parsed.batch_lines >= CommitEveryLines
          THEN /\ source_files' = [source_files EXCEPT ![p] = CommittedRow(parsed)]
               /\ usage_events' = usage_events \cup parsed.tx
               /\ sync_task' = [sync_task EXCEPT ![t] =
                      [parsed EXCEPT !.tx = {}, !.batch_lines = 0]]
          ELSE /\ sync_task' = [sync_task EXCEPT ![t] = parsed]
               /\ UNCHANGED <<source_files, usage_events>>
    /\ UNCHANGED <<transcripts, is_running, cancel_requested, usage_status, stale, edits,
                   prev_run>>
    /\ UNCHANGED nonUsageVars

\* The end of the spawned task: mark_error, mark_cancelled or mark_completed,
\* then state.finish().
usage_index_sync_finish(t) ==
    /\ sync_task[t].pc = "finish"
    /\ usage_status' =
           IF sync_task[t].failed THEN [usage_status EXCEPT !.state = "error"]
           ELSE [state |-> "idle", cancelled |-> sync_task[t].cancelled]
    /\ is_running' = FALSE
    /\ prev_run' = [completed |-> ~sync_task[t].failed /\ ~sync_task[t].cancelled,
                    cancel_requested |-> cancel_requested,
                    edits_at_start |-> sync_task[t].edits_at_start]
    /\ sync_task' = [sync_task EXCEPT ![t] = [NoSyncTask EXCEPT !.pc = "done"]]
    /\ UNCHANGED <<transcripts, source_files, usage_events, cancel_requested, stale, edits>>
    /\ UNCHANGED nonUsageVars

(***************************************************************************)
(* Binary discovery: discover_agent with its cache and single-flight gate  *)
(***************************************************************************)
\* Callers of discover_agent, and the provider ids they pass.
DiscoverCallers == {"d1", "d2", "d3"}
ProviderIds == {"codex", " Codex ", "gemini", ""}

\* provider_id.trim().to_ascii_lowercase()
provider_key(provider_id) ==
    IF provider_id = " Codex " THEN "codex" ELSE provider_id

ProviderKeys == {provider_key(id) : id \in ProviderIds} \ {""}

\* Option<AgentInstallation>; probe is a history tag that tells which probe
\* produced the value (0: none).
NoInstallation == [probe |-> 0, found |-> FALSE]
NoCacheEntry == [present |-> FALSE, checked_at |-> 0, result |-> NoInstallation]

\* entry.checked_at.elapsed() < DISCOVERY_CACHE_TTL
fresh_never(entry, now) == FALSE
fresh(entry, now) == entry.present /\ now - entry.checked_at < DiscoveryCacheTtl

IdleDiscover ==
    [pc |-> "idle", key |-> "", notified |-> FALSE, probe |-> 0, waited_for |-> 0,
     discovered |-> NoInstallation, returned |-> NoInstallation]

\* The probe that holds the single-flight slot of a key.
InFlightProbe(key) ==
    LET holders == {c \in DiscoverCallers :
                       discover[c].key = key /\ discover[c].pc \in {"probing", "store"}}
    IN IF holders = {} THEN 0 ELSE discover[CHOOSE c \in holders : TRUE].probe

\* Instant::now() advances.
instant_tick ==
    /\ instant < MaxInstant
    /\ instant' = instant + 1
    /\ UNCHANGED <<discovery_entries, in_flight, discover, probes>>
    /\ UNCHANGED nonDiscoverVars

\* discover_agent up to its loop: the key, and None for an empty key.
discover_agent_enter(c, provider_id) ==
    /\ discover[c].pc = "idle"
    /\ discover' = [discover EXCEPT ![c] =
           IF provider_key(provider_id) = ""
           THEN [IdleDiscover EXCEPT !.pc = "returned"]
           ELSE [IdleDiscover EXCEPT !.pc = "lock", !.key = provider_key(provider_id)]]
    /\ UNCHANGED <<discovery_entries, in_flight, instant, probes>>
    /\ UNCHANGED nonDiscoverVars

\* One turn of the loop under the cache mutex: return a fresh entry, or
\* create the notified() future of an in-flight key, or claim the key.
discover_agent_check(c) ==
    /\ discover[c].pc = "lock"
    /\ LET key == discover[c].key
           entry == discovery_entries[key]
       IN IF fresh(entry, instant)
          THEN /\ discover' = [discover EXCEPT ![c].pc = "returned",
                                               ![c].returned = entry.result]
               /\ UNCHANGED <<in_flight, probes>>
          ELSE IF key \in in_flight
          THEN /\ discover' = [discover EXCEPT ![c].pc = "waiting",
                                               ![c].notified = FALSE,
                                               ![c].waited_for =
                                                   IF @ = 0 THEN InFlightProbe(key) ELSE @]
               /\ UNCHANGED <<in_flight, probes>>
          ELSE /\ in_flight' = in_flight \cup {key}
               /\ probes' = probes + 1
               /\ discover' = [discover EXCEPT ![c].pc = "probing",
                                               ![c].probe = probes + 1]
    /\ UNCHANGED <<discovery_entries, instant>>
    /\ UNCHANGED nonDiscoverVars

\* spawn_blocking(discover_agent_sync).await: the probe finds the binary or
\* not; a failed task counts as None.
discover_agent_probe(c) ==
    /\ discover[c].pc = "probing"
    /\ \E found \in BOOLEAN :
          discover' = [discover EXCEPT ![c].pc = "store",
                          ![c].discovered = [probe |-> discover[c].probe, found |-> found]]
    /\ UNCHANGED <<discovery_entries, in_flight, instant, probes>>
    /\ UNCHANGED nonDiscoverVars

\* Under the cache mutex again: insert the entry, remove the key from
\* in_flight.
discover_agent_store(c) ==
    /\ discover[c].pc = "store"
    /\ discovery_entries' = [discovery_entries EXCEPT ![discover[c].key] =
           [present |-> TRUE, checked_at |-> instant, result |-> discover[c].discovered]]
    /\ in_flight' = in_flight \ {discover[c].key}
    /\ discover' = [discover EXCEPT ![c].pc = "notify"]
    /\ UNCHANGED <<instant, probes>>
    /\ UNCHANGED nonDiscoverVars

\* PROVIDER_DISCOVERY_NOTIFY.notify_waiters(), which reaches every notified()
\* future created so far, whatever key it waits for; return discovered.
discover_agent_notify(c) ==
    /\ discover[c].pc = "notify"
    /\ discover' = [d \in DiscoverCallers |->
           IF d = c THEN [discover[c] EXCEPT !.pc = "returned",
                                             !.returned = discover[c].discovered]
           ELSE IF discover[d].pc = "waiting" THEN [discover[d] EXCEPT !.notified = TRUE]
           ELSE discover[d]]
    /\ UNCHANGED <<discovery_entries, in_flight, instant, probes>>
    /\ UNCHANGED nonDiscoverVars

\* The future of the caller that claimed the key is dropped at one of its
\* await points (spawn_blocking(..).await or the second lock().await): no
\* statement after it runs, so the key stays in in_flight.
discover_agent_dropped(c) ==
    /\ discover[c].pc \in {"probing", "store"}
    /\ discover' = [discover EXCEPT ![c].pc = "dropped"]
    /\ UNCHANGED <<discovery_entries, in_flight, instant, probes>>
    /\ UNCHANGED nonDiscoverVars

\* wait_for_refresh.await completes; continue.
discover_agent_wake(c) ==
    /\ discover[c].pc = "waiting"
    /\ discover[c].notified
    /\ discover' = [discover EXCEPT ![c].pc = "lock", ![c].notified = FALSE]
    /\ UNCHANGED <<discovery_entries, in_flight, instant, probes>>
    /\ UNCHANGED nonDiscoverVars

(***************************************************************************)
(* Device authentication: authenticate_token, authenticate_request,        *)
(* authenticate_ws_request, device revocation                              *)
(***************************************************************************)
\* protocol.rs: PROTOCOL_VERSION.
PROTOCOL_VERSION == 1

\* Ids that create_device_token can draw.
DeviceIds == {"dev1", "dev2"}
\* Opaque tokens that generate_opaque_token can draw, and that clients send.
RawTokens == {"opc_1", "opc_2"}
\* Values of the x-codeinterfacex-sync-version header; "" is a request
\* without the header.
VersionHeaders == {"", "1", "2"}
\* Values of the Authorization header, as <<scheme, rest>>; <<>> is a request
\* without the header.
AuthorizationHeaders ==
    {<<>>, <<"Bearer", "   ">>, <<"Basic", "opc_1">>} \cup {<<"Bearer", t>> : t \in RawTokens}
\* Values of the ?token= query parameter; <<>> is a request without it.
QueryTokens == {<<>>, <<"  ">>, <<" opc_1 ">>}

HttpRequests == [version : VersionHeaders, authorization : AuthorizationHeaders,
                 query : {<<>>}]
WsRequests == [version : VersionHeaders, authorization : AuthorizationHeaders,
               query : QueryTokens]

NoDevice == [present |-> FALSE, token_hash |-> <<>>, revoked |-> 0, last_seen_at |-> 0]
NoAuthResponse == [endpoint |-> "none", request |-> [version |-> "", authorization |-> <<>>,
                   query |-> <<>>], status |-> 0, device_id |-> "", revoked_before |-> {}]

\* str::trim on the strings of the model.
trim(s) ==
    IF s \in {"   ", "  "} THEN ""
    ELSE IF s = " opc_1 " THEN "opc_1"
    ELSE s

\* str::parse::<u8> on the header values of the model; -1 is Err.
parse_u8(s) ==
    IF s = "1" THEN 1 ELSE IF s = "2" THEN 2 ELSE -1

\* auth.rs verify_protocol_version: the header must be there, parse as u8
\* and equal PROTOCOL_VERSION.
verify_protocol_version(version) ==
    /\ version # ""
    /\ parse_u8(version) # -1
    /\ parse_u8(version) = PROTOCOL_VERSION

\* auth.rs extract_bearer_token; "" is None.
extract_bearer_token(authorization) ==
    IF authorization = <<>> THEN ""
    ELSE IF authorization[1] # "Bearer" THEN ""
    ELSE trim(authorization[2])

\* auth.rs hash_token: SHA-256 of the raw token, injective on the model's tokens.
hash_token(raw_token) == <<"sha256", raw_token>>

\* auth.rs:89, the test of the revoked column of the row read.
row_revoked_never(row) == FALSE
row_revoked(row) == row.revoked # 0

\* auth.rs authenticate_token, its result: the row with the token's hash
\* (token_hash is UNIQUE), rejected when it is missing or revoked.
authenticate_token(table, token) ==
    LET rows == {d \in DeviceIds :
                    table[d].present /\ table[d].token_hash = hash_token(token)}
    IN IF rows = {}
       THEN [ok |-> FALSE, device_id |-> "", error |-> "Authentication failed"]
       ELSE LET d == CHOOSE d \in rows : TRUE
            IN IF row_revoked(table[d])
               THEN [ok |-> FALSE, device_id |-> "", error |-> "Device has been revoked"]
               ELSE [ok |-> TRUE, device_id |-> d, error |-> ""]

\* server.rs authenticate_request_with: version check (400), bearer token
\* (401 when missing), authenticate_fn (401 on any error).
authenticate_request(table, request) ==
    IF ~verify_protocol_version(request.version)
    THEN [status |-> 400, device_id |-> ""]
    ELSE LET token == extract_bearer_token(request.authorization)
         IN IF token = ""
            THEN [status |-> 401, device_id |-> ""]
            ELSE LET result == authenticate_token(table, token)
                 IN IF result.ok
                    THEN [status |-> 200, device_id |-> result.device_id]
                    ELSE [status |-> 401, device_id |-> ""]

\* server.rs select_ws_auth_token: the bearer token if there is one (then the
\* version header is checked), else the trimmed non-empty query token.
select_ws_auth_token(request) ==
    IF extract_bearer_token(request.authorization) # ""
    THEN IF verify_protocol_version(request.version)
         THEN [status |-> 200, token |-> extract_bearer_token(request.authorization)]
         ELSE [status |-> 400, token |-> ""]
    ELSE IF request.query # <<>> /\ trim(request.query[1]) # ""
         THEN [status |-> 200, token |-> trim(request.query[1])]
         ELSE [status |-> 401, token |-> ""]

\* server.rs authenticate_ws_request_with; 101 is the upgrade.
authenticate_ws_request(table, request) ==
    LET selection == select_ws_auth_token(request)
    IN IF selection.status # 200
       THEN [status |-> selection.status, device_id |-> ""]
       ELSE LET result == authenticate_token(table, selection.token)
            IN IF result.ok
               THEN [status |-> 101, device_id |-> result.device_id]
               ELSE [status |-> 401, device_id |-> ""]

\* The devices whose row has revoked = 1.
RevokedDevices == {d \in DeviceIds : mobile_devices[d].present /\ mobile_devices[d].revoked # 0}

\* authenticate_token's UPDATE of last_seen_at of the authenticated device.
touch_last_seen(table, device_id, now) ==
    IF device_id = "" THEN table
    ELSE [table EXCEPT ![device_id].last_seen_at = now]

\* mod.rs mobile_sync_set_enabled: cache.set_enabled.
mobile_sync_set_enabled(enabled) ==
    /\ sync_enabled # enabled
    /\ sync_enabled' = enabled
    /\ UNCHANGED <<mobile_devices, auth_response, auth_requests>>
    /\ UNCHANGED nonAuthVars

\* mod.rs create_device_token, called by pair_claim_handler: INSERT a row
\* with a new id and the hash of a new token, revoked = 0.
create_device_token(device_id, raw_token) ==
    /\ ~mobile_devices[device_id].present
    /\ \A d \in DeviceIds : mobile_devices[d].present
           => mobile_devices[d].token_hash # hash_token(raw_token)
    /\ mobile_devices' = [mobile_devices EXCEPT ![device_id] =
           [present |-> TRUE, token_hash |-> hash_token(raw_token), revoked |-> 0,
            last_seen_at |-> 0]]
    /\ UNCHANGED <<sync_enabled, auth_response, auth_requests>>
    /\ UNCHANGED nonAuthVars

\* mod.rs mobile_sync_revoke_device, the desktop command: UPDATE revoked = 1
\* of the row with the id, if there is one.
mobile_sync_revoke_device(device_id) ==
    /\ mobile_devices[device_id].present
    /\ mobile_devices[device_id].revoked = 0
    /\ mobile_devices' = [mobile_devices EXCEPT ![device_id].revoked = 1]
    /\ UNCHANGED <<sync_enabled, auth_response, auth_requests>>
    /\ UNCHANGED nonAuthVars

\* The response of a handler that starts with require_enabled and
\* authenticate_request.
HttpResponse(request) ==
    IF ~sync_enabled THEN [status |-> 503, device_id |-> ""]
    ELSE authenticate_request(mobile_devices, request)

\* server.rs snapshot_handler / action_handler, up to and including
\* authenticate_request.
snapshot_handler(request) ==
    /\ auth_requests < MaxAuthRequests
    /\ auth_requests' = auth_requests + 1
    /\ LET response == HttpResponse(request)
       IN /\ auth_response' = [endpoint |-> "snapshot", request |-> request,
                               status |-> response.status,
                               device_id |-> response.device_id,
                               revoked_before |-> RevokedDevices]
          /\ mobile_devices' = touch_last_seen(mobile_devices, response.device_id,
                                               auth_requests + 1)
    /\ UNCHANGED sync_enabled
    /\ UNCHANGED nonAuthVars

\* server.rs device_revoke_handler: require_enabled, authenticate_request,
\* UPDATE revoked = 1 of the row named in the body.
device_revoke_handler(request, target) ==
    /\ auth_requests < MaxAuthRequests
    /\ auth_requests' = auth_requests + 1
    /\ LET response == HttpResponse(request)
           seen == touch_last_seen(mobile_devices, response.device_id, auth_requests + 1)
       IN /\ auth_response' = [endpoint |-> "revoke", request |-> request,
                               status |-> response.status,
                               device_id |-> response.device_id,
                               revoked_before |-> RevokedDevices]
          /\ mobile_devices' =
                IF response.status = 200 /\ seen[target].present
                THEN [seen EXCEPT ![target].revoked = 1]
                ELSE seen
    /\ UNCHANGED sync_enabled
    /\ UNCHANGED nonAuthVars

\* server.rs websocket_handler: require_enabled, authenticate_ws_request,
\* then the upgrade.
websocket_handler(request) ==
    /\ auth_requests < MaxAuthRequests
    /\ auth_requests' = auth_requests + 1
    /\ LET response == IF ~sync_enabled THEN [status |-> 503, device_id |-> ""]
                       ELSE authenticate_ws_request(mobile_devices, request)
       IN /\ auth_response' = [endpoint |-> "ws", request |-> request,
                               status |-> response.status,
                               device_id |-> response.device_id,
                               revoked_before |-> RevokedDevices]
          /\ mobile_devices' = touch_last_seen(mobile_devices, response.device_id,
                                               auth_requests + 1)
    /\ UNCHANGED sync_enabled
    /\ UNCHANGED nonAuthVars

(***************************************************************************)
(* Utf8StreamDecoder (commands/terminal.rs)                                *)
(***************************************************************************)
\* char::REPLACEMENT_CHARACTER, U+FFFD.
REPLACEMENT_CHARACTER == 65533

\* Byte values the decoder is fed: ASCII 'A', the continuation bytes 0x80 and
\* 0xA0, the lead bytes 0xC2, 0xE0, 0xE2, 0xF0, and 0xFF, which no UTF-8
\* sequence contains.
DecoderBytes == {65, 128, 160, 194, 224, 226, 240, 255}

\* core::str: the width of the sequence a first byte announces, 0 for a
\* byte that cannot start one.
utf8_char_width(b) ==
    IF b < 128 THEN 1
    ELSE IF b >= 194 /\ b <= 223 THEN 2
    ELSE IF b >= 224 /\ b <= 239 THEN 3
    ELSE IF b >= 240 /\ b <= 244 THEN 4
    ELSE 0

\* A continuation byte, 0x80..0xBF.
utf8_is_cont_byte(b) == b >= 128 /\ b <= 191

\* The second byte a three- or four-byte first byte admits.
utf8_second_byte_ok(first, second) ==
    IF first = 224 THEN second >= 160 /\ second <= 191
    ELSE IF first = 237 THEN second >= 128 /\ second <= 159
    ELSE IF first = 240 THEN second >= 144 /\ second <= 191
    ELSE IF first = 244 THEN second >= 128 /\ second <= 143
    ELSE utf8_is_cont_byte(second)

\* The sequence that starts at bytes[i], as run_utf8_validation judges it:
\* "ok" with its length, "invalid" with Utf8Error::error_len, or
\* "incomplete" when the input ends inside it (error_len None).
next_code_point(bytes, i) ==
    LET n == Len(bytes)
        w == utf8_char_width(bytes[i])
    IN IF w = 1 THEN [kind |-> "ok", len |-> 1]
       ELSE IF w = 0 THEN [kind |-> "invalid", len |-> 1]
       ELSE IF i + 1 > n THEN [kind |-> "incomplete", len |-> 0]
       ELSE IF ~utf8_second_byte_ok(bytes[i], bytes[i + 1])
            THEN [kind |-> "invalid", len |-> 1]
       ELSE IF w = 2 THEN [kind |-> "ok", len |-> 2]
       ELSE IF i + 2 > n THEN [kind |-> "incomplete", len |-> 0]
       ELSE IF ~utf8_is_cont_byte(bytes[i + 2]) THEN [kind |-> "invalid", len |-> 2]
       ELSE IF w = 3 THEN [kind |-> "ok", len |-> 3]
       ELSE IF i + 3 > n THEN [kind |-> "incomplete", len |-> 0]
       ELSE IF ~utf8_is_cont_byte(bytes[i + 3]) THEN [kind |-> "invalid", len |-> 3]
       ELSE [kind |-> "ok", len |-> 4]

\* std::str::from_utf8 from byte i on: Ok, or Err with valid_up_to and
\* error_len (0 stands for None).
RECURSIVE run_utf8_validation(_, _)
run_utf8_validation(bytes, i) ==
    IF i > Len(bytes)
    THEN [ok |-> TRUE, valid_up_to |-> Len(bytes), error_len |-> 0]
    ELSE LET s == next_code_point(bytes, i)
         IN IF s.kind = "ok" THEN run_utf8_validation(bytes, i + s.len)
            ELSE [ok |-> FALSE, valid_up_to |-> i - 1, error_len |-> s.len]

from_utf8(bytes) == run_utf8_validation(bytes, 1)

\* The scalar value a valid sequence of w bytes at bytes[i] encodes.
code_point(bytes, i, w) ==
    IF w = 1 THEN bytes[i]
    ELSE IF w = 2 THEN (bytes[i] - 192) * 64 + (bytes[i + 1] - 128)
    ELSE IF w = 3
         THEN (bytes[i] - 224) * 4096 + (bytes[i + 1] - 128) * 64 + (bytes[i + 2] - 128)
    ELSE (bytes[i] - 240) * 262144 + (bytes[i + 1] - 128) * 4096
             + (bytes[i + 2] - 128) * 64 + (bytes[i + 3] - 128)

\* The chars of a valid UTF-8 slice, a str as the sequence of its scalar values.
RECURSIVE str_chars(_, _)
str_chars(bytes, i) ==
    IF i > Len(bytes) THEN <<>>
    ELSE LET w == utf8_char_width(bytes[i])
         IN <<code_point(bytes, i, w)>> \o str_chars(bytes, i + w)

\* Utf8StreamDecoder::decode_pending, the while loop: cursor counts the
\* bytes of pending consumed, output the text decoded so far.
RECURSIVE decode_loop(_, _, _, _)
decode_loop(pending, cursor, output, flush_incomplete) ==
    IF cursor >= Len(pending) THEN [output |-> output, cursor |-> cursor]
    ELSE LET rest == SubSeq(pending, cursor + 1, Len(pending))
             result == from_utf8(rest)
         IN IF result.ok
            THEN [output |-> output \o str_chars(rest, 1), cursor |-> Len(pending)]
            ELSE LET valid_end == cursor + result.valid_up_to
                     valid_text == str_chars(SubSeq(rest, 1, result.valid_up_to), 1)
                 IN IF result.error_len # 0
                    THEN decode_loop(pending,
                             IF valid_end + result.error_len < Len(pending)
                             THEN valid_end + result.error_len ELSE Len(pending),
                             output \o valid_text \o <<REPLACEMENT_CHARACTER>>,
                             flush_incomplete)
                    ELSE IF flush_incomplete
                         THEN [output |-> output \o valid_text \o <<REPLACEMENT_CHARACTER>>,
                               cursor |-> Len(pending)]
                         ELSE [output |-> output \o valid_text, cursor |-> valid_end]

\* Utf8StreamDecoder::decode_pending: the loop, then the consumed bytes are
\* dropped from pending.
decode_pending(pending, flush_incomplete) ==
    LET r == decode_loop(pending, 0, <<>>, flush_incomplete)
    IN [output |-> r.output,
        pending |-> IF r.cursor >= Len(pending) THEN <<>>
                    ELSE SubSeq(pending, r.cursor + 1, Len(pending))]

\* Utf8StreamDecoder::push.
push(pending, bytes) == decode_pending(pending \o bytes, FALSE)

\* Utf8StreamDecoder::flush_eof.
flush_eof_keeps_incomplete(pending) == decode_pending(pending, FALSE)
flush_eof(pending) == decode_pending(pending, TRUE)

\* The writer at the other end of the stream produces the next byte.
decoder_byte_arrives(b) ==
    /\ ~decoder.eof
    /\ Len(decoder.input) < MaxStreamBytes
    /\ decoder' = [decoder EXCEPT !.input = @ \o <<b>>, !.unread = @ \o <<b>>]
    /\ UNCHANGED nonDecoderVars

\* The caller reads the bytes that have arrived and feeds them to push.
decoder_push ==
    /\ ~decoder.eof
    /\ decoder.unread # <<>>
    /\ LET result == push(decoder.pending, decoder.unread)
       IN decoder' = [decoder EXCEPT
              !.unread = <<>>,
              !.pending = result.pending,
              !.output = @ \o result.output,
              !.split = @ \/ result.pending # <<>>]
    /\ UNCHANGED nonDecoderVars

\* The stream has ended and all of it was read: the caller calls flush_eof.
decoder_flush_eof ==
    /\ ~decoder.eof
    /\ decoder.unread = <<>>
    /\ LET result == flush_eof(decoder.pending)
       IN decoder' = [decoder EXCEPT
              !.pending = result.pending,
              !.output = @ \o result.output,
              !.eof = TRUE]
    /\ UNCHANGED nonDecoderVars

(***************************************************************************)
(* Embedded terminals: start_embedded_terminal and its reader thread,      *)
(* close_embedded_terminal (commands/terminal.rs)                          *)
(***************************************************************************)
\* The ids format!("term-{}", Uuid::new_v4()) can give.
TerminalIds == {"term-1"}
\* Concurrent callers of close_embedded_terminal.
CloseCallers == {"k1", "k2"}
\* The persistent_session_id argument of start_embedded_terminal, an
\* Option<String>: <<>> is None.
PersistentIdArgs == {<<>>, <<"  ">>, <<"my session">>}
\* The terminate_persistent_session argument of close_embedded_terminal, an
\* Option<bool>: <<>> is None.
TerminateArgs == {<<>>, <<TRUE>>, <<FALSE>>}
\* What one write of the child puts into the PTY.
PtyWrites == {<<226, 148>>, <<148, 32, 79, 75>>, <<226>>}

\* sanitize_persistent_session_id on the arguments of the model; "" is None.
sanitize_persistent_session_id(arg) ==
    IF arg = <<>> THEN ""
    ELSE IF arg[1] = "  " THEN ""
    ELSE IF arg[1] = "my session" THEN "my_session"
    ELSE arg[1]

\* should_terminate_persistent_session: unwrap_or(true).
should_terminate_persistent_session(terminate_persistent_session) ==
    IF terminate_persistent_session = <<>> THEN TRUE
    ELSE terminate_persistent_session[1]

\* HashMap::remove on the session map, of which the model keeps the keys.
sessions_remove_nothing(map, terminal_id) == map
sessions_remove(map, terminal_id) == map \ {terminal_id}

\* The test of the reader thread before it emits a decoded chunk.
emit_chunk_always(chunk) == TRUE
emit_chunk(chunk) == chunk # <<>>

\* The events after the reader thread handled one decoded chunk.
emit_output(events, chunk) ==
    IF emit_chunk(chunk) THEN Append(events, [event |-> "terminal-output", payload |-> chunk])
    ELSE events

NoTerminal == [started |-> FALSE, persistent_session_id |-> "", reused |-> FALSE,
               child |-> "none", reader |-> "none", unread |-> <<>>, pending |-> <<>>,
               reads |-> <<>>, writes |-> 0, last_read_err |-> FALSE,
               last_exit_reason |-> "", events |-> <<>>]
IdleCloser == [pc |-> "idle", terminal_id |-> "", terminate |-> <<>>,
               persistent_session_id |-> "", found |-> FALSE]

\* start_embedded_terminal: tmux_has_session, the spawn of the shell or of
\* the tmux client (new-session -A creates the session or attaches to it),
\* the insert into the session map and the spawn of the reader thread.  A
\* failed spawn returns the error and inserts nothing.
start_embedded_terminal(t, arg, spawned) ==
    /\ ~terminal[t].started
    /\ LET id == sanitize_persistent_session_id(arg)
       IN IF spawned
          THEN /\ terminal' = [terminal EXCEPT ![t] =
                      [NoTerminal EXCEPT !.started = TRUE,
                                         !.persistent_session_id = id,
                                         !.reused = (id # "" /\ id \in tmux_sessions),
                                         !.child = "alive",
                                         !.reader = "loop"]]
               /\ sessions' = sessions \cup {t}
               /\ tmux_sessions' = IF id = "" THEN tmux_sessions ELSE tmux_sessions \cup {id}
          ELSE UNCHANGED <<terminal, sessions, tmux_sessions>>
    /\ UNCHANGED closer
    /\ UNCHANGED nonTermVars

\* The child writes to the PTY.
pty_write(t, bytes) ==
    /\ terminal[t].child = "alive"
    /\ terminal[t].writes < MaxPtyWrites
    /\ terminal' = [terminal EXCEPT ![t].unread = @ \o bytes, ![t].writes = @ + 1]
    /\ UNCHANGED <<sessions, tmux_sessions, closer>>
    /\ UNCHANGED nonTermVars

\* The child ends by itself: the shell exits, which for a tmux client means
\* that the tmux session ended, or the tmux client detaches and leaves its
\* session running.
child_ends(t, detach) ==
    /\ terminal[t].child = "alive"
    /\ detach => terminal[t].persistent_session_id # ""
    /\ terminal' = [terminal EXCEPT ![t].child = "exited"]
    /\ tmux_sessions' = IF detach THEN tmux_sessions
                        ELSE tmux_sessions \ {terminal[t].persistent_session_id}
    /\ UNCHANGED <<sessions, closer>>
    /\ UNCHANGED nonTermVars

\* Reader thread, Ok(read_bytes): mark_output_read, push, emit of a chunk
\* that is not empty.
reader_read(t) ==
    /\ terminal[t].reader = "loop"
    /\ terminal[t].unread # <<>>
    /\ LET result == push(terminal[t].pending, terminal[t].unread)
       IN terminal' = [terminal EXCEPT
              ![t].reads = Append(@, terminal[t].unread),
              ![t].unread = <<>>,
              ![t].pending = result.pending,
              ![t].last_read_err = FALSE,
              ![t].events = emit_output(@, result.output)]
    /\ UNCHANGED <<sessions, tmux_sessions, closer>>
    /\ UNCHANGED nonTermVars

\* Reader thread, Ok(0) or Err: the child is gone and nothing is left to
\* read; an error is noted by mark_read_error.  Then flush_eof and the emit
\* of a final chunk that is not empty, and mark_exit_reason.
reader_break(t, read_error) ==
    /\ terminal[t].reader = "loop"
    /\ terminal[t].unread = <<>>
    /\ terminal[t].child = "exited"
    /\ LET result == flush_eof(terminal[t].pending)
       IN terminal' = [terminal EXCEPT
              ![t].reader = "exit",
              ![t].pending = result.pending,
              ![t].last_read_err = read_error,
              ![t].last_exit_reason = "reader_closed",
              ![t].events = emit_output(@, result.output)]
    /\ UNCHANGED <<sessions, tmux_sessions, closer>>
    /\ UNCHANGED nonTermVars

\* Reader thread: emit terminal-exit:<terminal_id> with payload true.
reader_emit_exit(t) ==
    /\ terminal[t].reader = "exit"
    /\ terminal' = [terminal EXCEPT
           ![t].reader = "remove",
           ![t].events = Append(@, [event |-> "terminal-exit", payload |-> <<>>])]
    /\ UNCHANGED <<sessions, tmux_sessions, closer>>
    /\ UNCHANGED nonTermVars

\* Reader thread: sessions.remove(&terminal_id), and the thread ends.
reader_remove(t) ==
    /\ terminal[t].reader = "remove"
    /\ sessions' = sessions_remove(sessions, t)
    /\ terminal' = [terminal EXCEPT ![t].reader = "done"]
    /\ UNCHANGED <<tmux_sessions, closer>>
    /\ UNCHANGED nonTermVars

\* close_embedded_terminal: sessions.remove(&terminal_id) under the map
\* lock; without a session the call returns Ok.
close_remove(k, t, terminate) ==
    /\ closer[k].pc = "idle"
    /\ terminal[t].started
    /\ sessions' = sessions_remove(sessions, t)
    /\ closer' = [closer EXCEPT ![k] =
           [pc |-> IF t \in sessions THEN "kill" ELSE "done",
            terminal_id |-> t, terminate |-> terminate,
            persistent_session_id |-> "", found |-> t \in sessions]]
    /\ UNCHANGED <<terminal, tmux_sessions>>
    /\ UNCHANGED nonTermVars

\* close_embedded_terminal, under the session lock: clone the persistent
\* id, mark_exit_reason, child.kill().
close_kill(k) ==
    /\ closer[k].pc = "kill"
    /\ LET t == closer[k].terminal_id
       IN /\ terminal' = [terminal EXCEPT ![t].last_exit_reason = "close_command",
                                          ![t].child = "exited"]
          /\ closer' = [closer EXCEPT
                 ![k].pc = "tmux",
                 ![k].persistent_session_id = terminal[t].persistent_session_id]
    /\ UNCHANGED <<sessions, tmux_sessions>>
    /\ UNCHANGED nonTermVars

\* close_embedded_terminal, the end: kill_tmux_session if the flag says so
\* and the session had a persistent id; return Ok.
close_kill_tmux(k) ==
    /\ closer[k].pc = "tmux"
    /\ tmux_sessions' =
          IF /\ should_terminate_persistent_session(closer[k].terminate)
             /\ closer[k].persistent_session_id # ""
          THEN tmux_sessions \ {closer[k].persistent_session_id}
          ELSE tmux_sessions
    /\ closer' = [closer EXCEPT ![k].pc = "done"]
    /\ UNCHANGED <<sessions, terminal>>
    /\ UNCHANGED nonTermVars

(***************************************************************************)
(* Provider argv builders (providers/*.rs, commands/agents.rs,             *)
(* commands/agent_session.rs).  Request strings are sequences of           *)
(* characters, since trim, lowercase and contains work on characters; an   *)
(* argv entry is a literal of the source followed by request characters.   *)
(***************************************************************************)
Arg(literal, chars) == [literal |-> literal, chars |-> chars]
Lit(literal) == Arg(literal, <<>>)
Str(chars) == Arg("", chars)

UpperCase == <<"A", "B", "C", "D", "E", "F", "G", "H", "I", "J", "K", "L", "M",
               "N", "O", "P", "Q", "R", "S", "T", "U", "V", "W", "X", "Y", "Z">>
LowerCase == <<"a", "b", "c", "d", "e", "f", "g", "h", "i", "j", "k", "l", "m",
               "n", "o", "p", "q", "r", "s", "t", "u", "v", "w", "x", "y", "z">>

\* char::is_whitespace on the characters of the model.
is_whitespace(c) == c \in {" ", "\t", "\n"}

\* str::trim: strips leading and trailing whitespace.
RECURSIVE trim_start(_)
trim_start(s) ==
    IF s # <<>> /\ is_whitespace(Head(s)) THEN trim_start(Tail(s)) ELSE s

RECURSIVE trim_end(_)
trim_end(s) ==
    IF s # <<>> /\ is_whitespace(s[Len(s)])
    THEN trim_end(SubSeq(s, 1, Len(s) - 1))
    ELSE s

str_trim(s) == trim_end(trim_start(s))

\* str::to_ascii_lowercase (and str::to_lowercase on ASCII text).
to_ascii_lowercase(s) ==
    [i \in 1..Len(s) |->
        IF \E k \in 1..Len(UpperCase) : UpperCase[k] = s[i]
        THEN LowerCase[CHOOSE k \in 1..Len(UpperCase) : UpperCase[k] = s[i]]
        ELSE s[i]]

eq_ignore_ascii_case(a, b) == to_ascii_lowercase(a) = to_ascii_lowercase(b)

\* str::contains with a string pattern.
str_contains(s, pattern) ==
    \E i \in 0..(Len(s) - Len(pattern)) : SubSeq(s, i + 1, i + Len(pattern)) = pattern

Default == <<"d", "e", "f", "a", "u", "l", "t">>
\* codex.rs:13 / agent_session.rs:138: names that mean "a Claude model".
claude_models ==
    {Default, <<"s", "o", "n", "n", "e", "t">>, <<"o", "p", "u", "s">>,
     <<"h", "a", "i", "k", "u">>, <<"c", "l", "a", "u", "d", "e">>}

\* The six values sanitize_reasoning_effort accepts.
reasoning_efforts ==
    {<<"n", "o", "n", "e">>, <<"m", "i", "n", "i", "m", "a", "l">>, <<"l", "o", "w">>,
     <<"m", "e", "d", "i", "u", "m">>, <<"h", "i", "g", "h">>, <<"x", "h", "i", "g", "h">>}

\* Inputs of the builders.  An Option is <<>> (None) or <<value>> (Some).
ArgvProviders == {"claude", "codex", "gemini", "aider", "goose", "opencode", "other"}
DescriptorProviders == {"claude", "codex", "aider", "opencode"}
CommandKinds == {"Execute", "Continue", "Resume"}
Models ==
    {<<>>, <<" ">>, Default, <<" ", "D", "e", "f", "a", "u", "l", "t", " ">>,
     <<"D", "E", "F", "A", "U", "L", "T">>, <<"g", "p", "t", "-", "5">>,
     <<" ", "o", "3">>, <<"O", "p", "u", "s">>}
ReasoningEffortArgs == {<<>>, << <<" ", "H", "i", "g", "h">> >>, << <<"f", "a", "s", "t">> >>}
SessionIdArgs == {<<>>, << <<" ">> >>, << <<"s", "1">> >>}
Prompt == <<"h", "i">>
SystemPrompt == <<"b", "e">>

\* runtime.rs append_optional_model_arg (the same body as
\* provider_session.rs append_provider_session_model_arg).
append_optional_model_arg(args, model) ==
    LET trimmed == str_trim(model) IN
    IF trimmed = <<>> \/ eq_ignore_ascii_case(trimmed, Default)
    THEN args
    ELSE args \o <<Lit("--model"), Str(trimmed)>>

\* runtime.rs / agents.rs / agent_session.rs sanitize_reasoning_effort.
sanitize_reasoning_effort(reasoning_effort) ==
    IF reasoning_effort = <<>> THEN <<>>
    ELSE LET trimmed == str_trim(reasoning_effort[1]) IN
         IF trimmed = <<>> THEN <<>>
         ELSE IF to_ascii_lowercase(trimmed) \in reasoning_efforts
              THEN <<to_ascii_lowercase(trimmed)>>
              ELSE <<>>

\* The `-c model_reasoning_effort="<e>"` pair of the codex builders.
append_reasoning_effort(args, reasoning_effort) ==
    LET effort == sanitize_reasoning_effort(reasoning_effort) IN
    IF effort # <<>>
    THEN args \o <<Lit("-c"), Arg("model_reasoning_effort=", <<"\"">> \o effort[1] \o <<"\"">>)>>
    ELSE args

BuildOk(args) == [ok |-> TRUE, args |-> args]
BuildErr == [ok |-> FALSE, args |-> <<>>]

\* providers/claude.rs build_args.
claude_build_args(request) ==
    LET session_id ==
            IF request.session_id = <<>> THEN <<>>
            ELSE IF str_trim(request.session_id[1]) = <<>> THEN <<>>
            ELSE <<str_trim(request.session_id[1])>>
        tail == <<Lit("--output-format"), Lit("stream-json"), Lit("--verbose"),
                  Lit("--dangerously-skip-permissions")>>
    IN
    CASE request.kind = "Execute" ->
           BuildOk(append_optional_model_arg(<<Lit("-p"), Str(request.prompt)>>, request.model)
                   \o tail)
      [] request.kind = "Continue" ->
           BuildOk(append_optional_model_arg(<<Lit("-c"), Lit("-p"), Str(request.prompt)>>,
                                             request.model) \o tail)
      [] request.kind = "Resume" ->
           IF session_id = <<>> THEN BuildErr
           ELSE BuildOk(append_optional_model_arg(
                            <<Lit("--resume"), Str(session_id[1]), Lit("-p"),
                              Str(request.prompt)>>, request.model) \o tail)

\* The model test of the codex builders (codex.rs:14-17, agent_session.rs:138-141).
codex_passes_model(model) ==
    /\ model # <<>>
    /\ ~ \E value \in claude_models : str_contains(to_ascii_lowercase(model), value)

\* providers/codex.rs build_args.
codex_build_args(request) ==
    LET head == <<Lit("exec"), Lit("--json"), Str(request.prompt)>>
        with_model ==
            IF codex_passes_model(request.model)
            THEN head \o <<Lit("--model"), Str(request.model)>>
            ELSE head
    IN BuildOk(append_reasoning_effort(with_model, request.reasoning_effort))

\* providers/aider.rs build_args.
aider_build_args(request) ==
    BuildOk(append_optional_model_arg(
                <<Lit("--message"), Str(request.prompt), Lit("--yes")>>, request.model))

\* providers/opencode.rs build_args.
opencode_build_args(request) ==
    BuildOk(append_optional_model_arg(<<Lit("run"), Str(request.prompt)>>, request.model))

\* runtime.rs get_provider_runtime(provider_id).build_args for the
\* descriptors whose source is present.
descriptor_build_args(provider_id, request) ==
    CASE provider_id = "claude" -> claude_build_args(request)
      [] provider_id = "codex" -> codex_build_args(request)
      [] provider_id = "aider" -> aider_build_args(request)
      [] provider_id = "opencode" -> opencode_build_args(request)

\* agents.rs build_provider_args.
build_provider_args(provider_id, task, raw_model, system_prompt, reasoning_effort) ==
    LET model == str_trim(raw_model)
        has_explicit_model == model # <<>> /\ ~eq_ignore_ascii_case(model, Default)
        model_arg == IF has_explicit_model THEN <<Lit("--model"), Str(model)>> ELSE <<>>
    IN
    CASE provider_id = "claude" ->
           <<Lit("-p"), Str(task), Lit("--system-prompt"),
             Str(IF system_prompt = <<>> THEN <<>> ELSE system_prompt[1])>>
           \o model_arg
           \o <<Lit("--output-format"), Lit("stream-json"), Lit("--verbose"),
                Lit("--dangerously-skip-permissions")>>
      [] provider_id = "codex" ->
           append_reasoning_effort(<<Lit("exec"), Lit("--json"), Str(task)>> \o model_arg,
                                   reasoning_effort)
      [] provider_id = "aider" ->
           <<Lit("--message"), Str(task), Lit("--yes")>> \o model_arg
      [] provider_id = "gemini" ->
           <<Lit("--prompt"), Str(task), Lit("--approval-mode"), Lit("yolo"),
             Lit("--output-format"), Lit("stream-json")>> \o model_arg
      [] provider_id = "goose" ->
           <<Lit("run"), Lit("--text"), Str(task), Lit("--no-session"),
             Lit("--output-format"), Lit("stream-json")>> \o model_arg
      [] provider_id = "opencode" ->
           <<Lit("run"), Str(task)>> \o model_arg
      [] OTHER -> <<Str(task)>>

\* agent_session.rs build_provider_args.
session_build_provider_args(provider_id, prompt, model, reasoning_effort) ==
    LET model_arg == IF model # <<>> THEN <<Lit("--model"), Str(model)>> ELSE <<>>
    IN
    CASE provider_id = "codex" ->
           append_reasoning_effort(
               <<Lit("exec"), Lit("--json"), Str(prompt)>>
               \o (IF codex_passes_model(model) THEN <<Lit("--model"), Str(model)>> ELSE <<>>),
               reasoning_effort)
      [] provider_id = "gemini" ->
           <<Lit("--prompt"), Str(prompt), Lit("--approval-mode"), Lit("yolo"),
             Lit("--output-format"), Lit("stream-json")>> \o model_arg
      [] provider_id = "aider" ->
           <<Lit("--message"), Str(prompt), Lit("--yes")>> \o model_arg
      [] provider_id = "goose" ->
           <<Lit("run"), Lit("--text"), Str(prompt), Lit("--no-session"),
             Lit("--output-format"), Lit("stream-json")>> \o model_arg
      [] provider_id = "opencode" ->
           <<Lit("run"), Str(prompt)>> \o model_arg
      [] OTHER -> <<Str(prompt)>>

NoArgv ==
    [builder |-> "", provider_id |-> "", model |-> <<>>, ok |-> FALSE, args |-> <<>>]

\* A provider descriptor's build_args is called with a request.
provider_build_args(provider_id, kind, model, session_id, reasoning_effort) ==
    LET request == [kind |-> kind, prompt |-> Prompt, model |-> model,
                    session_id |-> session_id, reasoning_effort |-> reasoning_effort]
        built == descriptor_build_args(provider_id, request)
    IN
    /\ argv' = [builder |-> "providers", provider_id |-> provider_id, model |-> model,
                ok |-> built.ok, args |-> built.args]
    /\ UNCHANGED nonArgvVars

\* agents.rs execute_agent builds the argv of an agent run.
execute_agent_args(provider_id, model, system_prompt, reasoning_effort) ==
    /\ argv' = [builder |-> "agents", provider_id |-> provider_id, model |-> model,
                ok |-> TRUE,
                args |-> build_provider_args(provider_id, Prompt, model, system_prompt,
                                             reasoning_effort)]
    /\ UNCHANGED nonArgvVars

\* agent_session.rs execute_agent_session builds the argv of a non-Claude
\* session (Claude sessions are delegated to provider_session.rs).
execute_agent_session_args(provider_id, model, reasoning_effort) ==
    /\ provider_id # "claude"
    /\ argv' = [builder |-> "agent_session", provider_id |-> provider_id, model |-> model,
                ok |-> TRUE,
                args |-> session_build_provider_args(provider_id, Prompt, model,
                                                     reasoning_effort)]
    /\ UNCHANGED nonArgvVars

(***************************************************************************)
(* Stream normalizer and output fan-out of one agent run                   *)
(* (commands/agents.rs spawn_agent_system, commands/codex_transform.rs).   *)
(*                                                                         *)
(* A text (a Rust &str) is a sequence of tokens: a run of non-blank        *)
(* characters that is no JSON document ("chars"), a blank ("ws"), a JSON   *)
(* document ("json", with its value and its layout) or bytes that are      *)
(* not UTF-8 ("bad").  A JSON value is a record of its kind and content;   *)
(* an Option is <<>> (None) or <<value>> (Some).                           *)
(***************************************************************************)
Token(t, s, j) == [t |-> t, s |-> s, j |-> j]
Chars(s) == <<Token("chars", s, <<>>)>>
Blank == <<Token("ws", " ", <<>>)>>
Newline == Chars("\n")

JsonValue(kind, str, num, items, fields) ==
    [kind |-> kind, str |-> str, num |-> num, items |-> items, fields |-> fields]
JStr(text) == JsonValue("str", text, 0, <<>>, <<>>)
JNum(n) == JsonValue("num", <<>>, n, <<>>, <<>>)
JArr(items) == JsonValue("arr", <<>>, 0, items, <<>>)
JObj(fields) == JsonValue("obj", <<>>, 0, <<>>, fields)

\* serde_json::to_string / Value::to_string: the compact text of a value.
to_string(value) == <<Token("json", "compact", <<value>>)>>
\* The text of a value as a child process may print it, with blanks
\* between the tokens of the document.
Spaced(value) == <<Token("json", "spaced", <<value>>)>>

\* str::trim on a text: blanks at both ends are dropped.
RECURSIVE text_trim_start(_)
text_trim_start(text) ==
    IF text # <<>> /\ Head(text).t = "ws" THEN text_trim_start(Tail(text)) ELSE text

RECURSIVE text_trim_end(_)
text_trim_end(text) ==
    IF text # <<>> /\ text[Len(text)].t = "ws"
    THEN text_trim_end(SubSeq(text, 1, Len(text) - 1))
    ELSE text

text_trim(text) == text_trim_end(text_trim_start(text))

\* serde_json::from_str: a document, blanks around it allowed; <<>> is Err.
from_str(text) ==
    LET body == text_trim(text) IN
    IF Len(body) = 1 /\ body[1].t = "json" THEN <<body[1].j[1]>> ELSE <<>>

\* Value::get(key) on an Option<&Value>.
json_get(opt, key) ==
    IF opt = <<>> THEN <<>>
    ELSE IF opt[1].kind # "obj" THEN <<>>
    ELSE LET fields == opt[1].fields IN
         IF \E i \in 1..Len(fields) : fields[i][1] = key
         THEN <<fields[CHOOSE i \in 1..Len(fields) : fields[i][1] = key][2]>>
         ELSE <<>>

as_str(opt) == IF opt # <<>> /\ opt[1].kind = "str" THEN <<opt[1].str>> ELSE <<>>
as_u64(opt) == IF opt # <<>> /\ opt[1].kind = "num" THEN <<opt[1].num>> ELSE <<>>
as_array(opt) == IF opt # <<>> /\ opt[1].kind = "arr" THEN <<opt[1].items>> ELSE <<>>
unwrap_or(opt, default) == IF opt = <<>> THEN default ELSE opt[1]

\* [&str]::join("\n").
RECURSIVE join(_)
join(parts) ==
    IF parts = <<>> THEN <<>>
    ELSE IF Len(parts) = 1 THEN parts[1]
    ELSE parts[1] \o Newline \o join(Tail(parts))

\* The `text` strings of the entries of a content array whose `type` is
\* one of `types` (iter().filter(..).filter_map(..).collect()).
content_texts(content, types) ==
    LET typed == SelectSeq(content,
                     LAMBDA c : /\ unwrap_or(as_str(json_get(<<c>>, "type")), <<>>) \in types
                                /\ as_str(json_get(<<c>>, "text")) # <<>>)
    IN [i \in 1..Len(typed) |-> as_str(json_get(<<typed[i]>>, "text"))[1]]

\* codex_transform.rs / agents.rs: the assistant text envelope.
wrap_as_text(text) ==
    to_string(JObj(<<
        <<"type", JStr(Chars("assistant"))>>,
        <<"message", JObj(<< <<"content", JArr(<<
            JObj(<< <<"type", JStr(Chars("text"))>>, <<"text", JStr(text)>> >>) >>)>> >>)>> >>))

\* agents.rs wrap_as_assistant_text: the same envelope, built on its own.
wrap_as_assistant_text_without_message(text) ==
    to_string(JObj(<< <<"type", JStr(Chars("assistant"))>>, <<"text", JStr(text)>> >>))

wrap_as_assistant_text(text) ==
    to_string(JObj(<<
        <<"type", JStr(Chars("assistant"))>>,
        <<"message", JObj(<< <<"content", JArr(<<
            JObj(<< <<"type", JStr(Chars("text"))>>, <<"text", JStr(text)>> >>) >>)>> >>)>> >>))

\* The result envelope of turn.completed / response.completed.
result_envelope(input_tokens, output_tokens) ==
    to_string(JObj(<<
        <<"type", JStr(Chars("result"))>>,
        <<"usage", JObj(<< <<"input_tokens", JNum(input_tokens)>>,
                           <<"output_tokens", JNum(output_tokens)>> >>)>> >>))

\* codex_transform.rs extract_text_from_item.
extract_text_from_item(item) ==
    LET text == as_str(json_get(<<item>>, "text"))
        content == as_array(json_get(<<item>>, "content"))
        parts == IF content = <<>> THEN <<>>
                 ELSE content_texts(content[1], {Chars("text"), Chars("output_text")})
        message == json_get(<<item>>, "message")
    IN
    IF text # <<>> /\ text[1] # <<>> THEN text[1]
    ELSE IF parts # <<>> THEN join(parts)
    ELSE IF message # <<>> /\ as_str(json_get(message, "text")) # <<>>
         THEN as_str(json_get(message, "text"))[1]
    ELSE IF message # <<>> /\ as_str(json_get(message, "content")) # <<>>
         THEN as_str(json_get(message, "content"))[1]
    ELSE <<>>

\* codex_transform.rs transform_item_completed.
transform_item_completed(event) ==
    LET item == json_get(<<event>>, "item") IN
    IF item = <<>> THEN <<>>
    ELSE
    LET item_type == unwrap_or(as_str(json_get(item, "type")), <<>>)
        text == extract_text_from_item(item[1])
        cmd == IF json_get(item, "command") # <<>>
               THEN unwrap_or(as_str(json_get(item, "command")), <<>>)
               ELSE unwrap_or(as_str(json_get(item, "name")), <<>>)
        output == unwrap_or(as_str(json_get(item, "output")), <<>>)
    IN
    CASE item_type \in {Chars("agent_message"), Chars("message")} ->
           IF text = <<>> THEN <<>> ELSE <<wrap_as_text(text)>>
      [] item_type = Chars("reasoning") ->
           IF text = <<>> THEN <<>> ELSE <<wrap_as_text(Chars("[thinking] ") \o text)>>
      [] item_type \in {Chars("command_execution"), Chars("function_call")} ->
           IF output = <<>>
           THEN <<wrap_as_text(Chars("$ ") \o cmd)>>
           ELSE <<wrap_as_text(Chars("$ ") \o cmd \o Newline \o output)>>
      [] OTHER ->
           IF text = <<>> THEN <<>> ELSE <<wrap_as_text(text)>>

\* The first of the top-level keys that holds a non-empty string.
RECURSIVE first_text_field(_, _)
first_text_field(value, keys) ==
    IF keys = <<>> THEN <<>>
    ELSE LET s == as_str(json_get(<<value>>, Head(keys))) IN
         IF s # <<>> /\ s[1] # <<>> THEN s ELSE first_text_field(value, Tail(keys))

\* The `text` strings under response.output[].content[], in order.
RECURSIVE output_texts(_)
output_texts(output) ==
    IF output = <<>> THEN <<>>
    ELSE LET content == as_array(json_get(<<Head(output)>>, "content"))
             here == IF content = <<>> THEN <<>>
                     ELSE LET with_text == SelectSeq(content[1],
                                  LAMBDA c : as_str(json_get(<<c>>, "text")) # <<>>)
                          IN [i \in 1..Len(with_text) |->
                                 as_str(json_get(<<with_text[i]>>, "text"))[1]]
         IN here \o output_texts(Tail(output))

\* combined.push('\n') when combined is not empty, then push_str(text).
RECURSIVE combine(_, _)
combine(combined, texts) ==
    IF texts = <<>> THEN combined
    ELSE combine((IF combined # <<>> THEN combined \o Newline ELSE combined) \o Head(texts),
                 Tail(texts))

\* codex_transform.rs try_extract_text_from_value.
try_extract_text_from_value(value) ==
    LET top == first_text_field(value,
                   <<"text", "delta", "content", "message", "output", "data">>)
        item == json_get(<<value>>, "item")
        item_text == IF item = <<>> THEN <<>> ELSE extract_text_from_item(item[1])
        output == as_array(json_get(json_get(<<value>>, "response"), "output"))
        combined == IF output = <<>> THEN <<>> ELSE combine(<<>>, output_texts(output[1]))
    IN
    IF top # <<>> THEN top
    ELSE IF item_text # <<>> THEN <<item_text>>
    ELSE IF combined # <<>> THEN <<combined>>
    ELSE <<>>

\* Value::pointer("/a/b").and_then(as_u64).unwrap_or(0).
tokens_at(event, path) ==
    LET at == IF Len(path) = 2 THEN json_get(json_get(<<event>>, path[1]), path[2])
              ELSE json_get(json_get(json_get(<<event>>, path[1]), path[2]), path[3])
    IN unwrap_or(as_u64(at), 0)

\* codex_transform.rs transform_codex_line.
transform_codex_line(line) ==
    LET trimmed == text_trim(line)
        parsed == from_str(trimmed)
    IN
    IF trimmed = <<>> THEN <<>>
    ELSE IF parsed = <<>> THEN <<wrap_as_text(trimmed)>>
    ELSE
    LET event == parsed[1]
        event_type == unwrap_or(as_str(json_get(parsed, "type")), <<>>)
    IN
    CASE event_type \in {Chars("thread.started"), Chars("turn.started")} -> <<>>
      [] event_type = Chars("item.completed") -> transform_item_completed(event)
      [] event_type = Chars("turn.completed") ->
           <<result_envelope(tokens_at(event, <<"usage", "input_tokens">>),
                             tokens_at(event, <<"usage", "output_tokens">>))>>
      [] event_type = Chars("response.output_text.delta") ->
           LET delta == unwrap_or(as_str(json_get(parsed, "delta")), <<>>) IN
           IF delta = <<>> THEN <<>> ELSE <<wrap_as_text(delta)>>
      [] event_type = Chars("response.output_text.done") ->
           LET text == unwrap_or(as_str(json_get(parsed, "text")), <<>>) IN
           IF text = <<>> THEN <<>> ELSE <<wrap_as_text(text)>>
      [] event_type = Chars("response.output_item.done") ->
           LET item == json_get(parsed, "item")
               content == as_array(json_get(item, "content"))
               texts == IF content = <<>> THEN <<>>
                        ELSE content_texts(content[1], {Chars("output_text")})
               text == as_str(json_get(item, "text"))
           IN
           IF texts # <<>> THEN <<wrap_as_text(join(texts))>>
           ELSE IF text # <<>> /\ text[1] # <<>> THEN <<wrap_as_text(text[1])>>
           ELSE <<>>
      [] event_type = Chars("response.completed") ->
           LET input_tokens == tokens_at(event, <<"response", "usage", "input_tokens">>)
               output_tokens == tokens_at(event, <<"response", "usage", "output_tokens">>)
           IN
           IF input_tokens > 0 \/ output_tokens > 0
           THEN <<result_envelope(input_tokens, output_tokens)>>
           ELSE <<>>
      [] event_type \in {Chars("response.created"), Chars("response.in_progress"),
                         Chars("response.output_item.added"),
                         Chars("response.content_part.added"),
                         Chars("response.content_part.done")} -> <<>>
      [] OTHER ->
           LET text == try_extract_text_from_value(event) IN
           IF text # <<>> THEN <<wrap_as_text(text[1])>> ELSE <<>>

\* agents.rs transform_provider_output: the test of the default arm.
has_stream_shape_type_only(line) ==
    LET parsed == from_str(line) IN
    /\ parsed # <<>>
    /\ as_str(json_get(parsed, "type")) # <<>>

has_stream_shape(line) ==
    LET parsed == from_str(line) IN
    /\ parsed # <<>>
    /\ as_str(json_get(parsed, "type")) # <<>>
    /\ json_get(json_get(parsed, "message"), "content") # <<>>

\* agents.rs transform_provider_output.
transform_provider_output(provider_id, line) ==
    CASE provider_id = "claude" -> <<line>>
      [] provider_id = "codex" -> transform_codex_line(line)
      [] OTHER -> IF has_stream_shape(line) THEN <<line>> ELSE <<wrap_as_assistant_text(line)>>

\* The stream adapter of a provider's runtime descriptor.
stream_adapter(provider_id) ==
    CASE provider_id = "claude" -> "ClaudeJson"
      [] provider_id = "codex" -> "CodexJson"
      [] provider_id \in {"aider", "opencode"} -> "TextWrapped"

NormalizerProviders == {"claude", "codex", "aider", "opencode"}

\* Documents a child process prints on stdout.
Event(type, fields) == JObj(<< <<"type", JStr(Chars(type))>> >> \o fields)
Usage(input_tokens, output_tokens) ==
    JObj(<< <<"input_tokens", JNum(input_tokens)>>, <<"output_tokens", JNum(output_tokens)>> >>)
TextPart(type, text) ==
    JObj(<< <<"type", JStr(Chars(type))>>, <<"text", JStr(Chars(text))>> >>)
AssistantMessage ==
    Event("assistant",
          << <<"message", JObj(<< <<"content", JArr(<<TextPart("text", "ok")>>)>> >>)>> >>)

\* Lines of any provider: plain text, blanks, Claude stream-json lines in
\* both layouts, and documents that miss the stream shape in one way each.
CommonLines ==
    { Chars("hello") \o Blank \o Chars("world"),
      Blank \o Blank,
      <<>>,
      to_string(AssistantMessage),
      Blank \o Spaced(AssistantMessage) \o Blank,
      to_string(Event("system", << <<"subtype", JStr(Chars("init"))>> >>)),
      to_string(JObj(<< <<"type", JNum(7)>>,
                        <<"message", JObj(<< <<"content", JStr(Chars("x"))>> >>)>> >>)),
      to_string(JObj(<< <<"message", JObj(<< <<"content", JStr(Chars("x"))>> >>)>> >>)),
      to_string(Event("user", << <<"message", JObj(<< <<"content", JArr(<<>>)>> >>)>> >>)),
      to_string(Event("assistant", << <<"message", JStr(Chars("plain"))>> >>)),
      to_string(JNum(42)) }

\* Events of `codex exec --json`, in both formats of codex_transform.rs.
CodexLines ==
    { to_string(Event("thread.started", <<>>)),
      to_string(Event("response.created", <<>>)),
      to_string(Event("item.completed",
          << <<"item", Event("agent_message", << <<"text", JStr(Chars("done"))>> >>)>> >>)),
      to_string(Event("item.completed",
          << <<"item", Event("reasoning",
                 << <<"content", JArr(<<TextPart("text", "why"), TextPart("image", "png"),
                                        TextPart("output_text", "so")>>)>> >>)>> >>)),
      to_string(Event("item.completed",
          << <<"item", Event("command_execution",
                 << <<"command", JStr(Chars("ls"))>>, <<"output", JStr(Chars("a.txt"))>> >>)>> >>)),
      to_string(Event("item.completed",
          << <<"item", Event("function_call", << <<"name", JStr(Chars("grep"))>> >>)>> >>)),
      to_string(Event("item.completed",
          << <<"item", Event("file_change",
                 << <<"message", JObj(<< <<"content", JStr(Chars("edited"))>> >>)>> >>)>> >>)),
      to_string(Event("item.completed", <<>>)),
      Spaced(Event("turn.completed", << <<"usage", Usage(3, 4)>> >>)),
      to_string(Event("response.output_text.delta", << <<"delta", JStr(Chars("de"))>> >>)),
      to_string(Event("response.output_text.done", << <<"text", JStr(<<>>)>> >>)),
      to_string(Event("response.output_item.done",
          << <<"item", JObj(<< <<"content", JArr(<<TextPart("output_text", "ot")>>)>> >>)>> >>)),
      to_string(Event("response.output_item.done",
          << <<"item", JObj(<< <<"text", JStr(Chars("it"))>> >>)>> >>)),
      to_string(Event("response.completed",
          << <<"response", JObj(<< <<"usage", Usage(0, 0)>> >>)>> >>)),
      to_string(Event("response.completed",
          << <<"response", JObj(<< <<"usage", Usage(5, 0)>> >>)>> >>)),
      to_string(Event("note", << <<"data", JStr(Chars("salvaged"))>> >>)),
      to_string(Event("note",
          << <<"response", JObj(<< <<"output", JArr(<<
                 JObj(<< <<"content", JArr(<<TextPart("a", "r1"), TextPart("b", "r2")>>)>> >>)
             >>)>> >>)>> >>)) }

NormalizerLines == CommonLines \cup CodexLines

NoNormalized == [provider_id |-> "", line |-> <<>>, envelope |-> <<>>, again |-> <<>>,
                 replayed |-> FALSE]

\* normalize(line, adapter): a stdout line of a provider is transformed.
normalize(provider_id, line) ==
    /\ normalized' = [provider_id |-> provider_id, line |-> line,
                      envelope |-> transform_provider_output(provider_id, line),
                      again |-> <<>>, replayed |-> FALSE]
    /\ UNCHANGED nonNormalizeVars

\* The envelope of the last line is normalized again with the same adapter.
normalize_replay ==
    /\ normalized.envelope # <<>>
    /\ ~normalized.replayed
    /\ normalized' = [normalized EXCEPT
           !.again = transform_provider_output(normalized.provider_id, normalized.envelope[1]),
           !.replayed = TRUE]
    /\ UNCHANGED nonNormalizeVars

(***************************************************************************)
(* Output fan-out of one agent run (commands/agents.rs                     *)
(* spawn_agent_system): the child writes lines to its stdout and stderr    *)
(* pipes, the stdout and stderr tasks read them and emit envelopes.        *)
(***************************************************************************)
StreamProviders == {"claude", "codex", "aider"}

\* A line that is not UTF-8: lines.next_line() returns Err on it.
BadLine == <<Token("bad", "", <<>>)>>

StdoutLines ==
    { Chars("hello") \o Blank \o Chars("world"),
      to_string(AssistantMessage),
      to_string(Event("thread.started", <<>>)),
      Spaced(Event("turn.completed", << <<"usage", Usage(3, 4)>> >>)),
      BadLine }
StderrLines == {Chars("warning")}

\* The init line spawn_agent_system emits for a provider other than claude.
init_line(provider_id) ==
    to_string(Event("system", << <<"subtype", JStr(Chars("init"))>>,
                                 <<"session_id", JStr(<<>>)>>,
                                 <<"provider_id", JStr(Chars(provider_id))>>,
                                 <<"cwd", JStr(Chars("/project"))>>,
                                 <<"model", JStr(Chars("default"))>> >>))

OutputEvent(source, line_no, payload) ==
    [source |-> source, line_no |-> line_no, payload |-> payload]

\* app.emit of one output line: the run-scoped channel, then the generic
\* one; live_output gets the line first.
emit_output_line(ch, source, line_no, payload) ==
    [ch EXCEPT !.live_output = Append(@, payload),
               !.run_output = Append(@, OutputEvent(source, line_no, payload)),
               !.output = Append(@, payload)]

emit_error_line(ch, line) ==
    [ch EXCEPT !.run_error = Append(@, line), !.error = Append(@, line)]

\* BufReader::lines: the index of the line next_line() returns after
\* `read` lines were read.
next_line_newest(pipe, read) == Len(pipe) - read
next_line(pipe, read) == read + 1

NoStream ==
    [provider_id |-> "", stdout |-> <<>>, stderr |-> <<>>, closed |-> FALSE,
     stdout_read |-> 0, stderr_read |-> 0, stdout_task |-> "none", stderr_task |-> "none"]
NoChannels ==
    [live_output |-> <<>>, run_output |-> <<>>, output |-> <<>>,
     run_error |-> <<>>, error |-> <<>>]

\* spawn_agent_system after the spawn: the init line, then both tasks.
spawn_stream_tasks(provider_id) ==
    /\ stream.provider_id = ""
    /\ stream' = [stream EXCEPT !.provider_id = provider_id,
                                !.stdout_task = "reading", !.stderr_task = "reading"]
    /\ channels' = IF provider_id # "claude"
                   THEN emit_output_line(channels, "init", 0, init_line(provider_id))
                   ELSE channels
    /\ UNCHANGED nonStreamVars

\* The child writes a line to its stdout pipe.
stream_child_writes_stdout(line) ==
    /\ stream.provider_id # ""
    /\ ~stream.closed
    /\ Len(stream.stdout) + Len(stream.stderr) < MaxPipeLines
    /\ stream' = [stream EXCEPT !.stdout = Append(@, line)]
    /\ UNCHANGED <<channels, nonStreamVars>>

\* The child writes a line to its stderr pipe.
stream_child_writes_stderr(line) ==
    /\ stream.provider_id # ""
    /\ ~stream.closed
    /\ Len(stream.stdout) + Len(stream.stderr) < MaxPipeLines
    /\ stream' = [stream EXCEPT !.stderr = Append(@, line)]
    /\ UNCHANGED <<channels, nonStreamVars>>

\* The child exits: both pipes reach EOF once they are drained.
stream_child_closes ==
    /\ stream.provider_id # ""
    /\ ~stream.closed
    /\ stream' = [stream EXCEPT !.closed = TRUE]
    /\ UNCHANGED <<channels, nonStreamVars>>

\* One turn of the stdout task's loop: next_line, transform, emit.
stdout_task_next_line ==
    /\ stream.stdout_task = "reading"
    /\ IF stream.stdout_read < Len(stream.stdout)
       THEN LET line_no == next_line(stream.stdout, stream.stdout_read)
                line == stream.stdout[line_no]
                emitted_line == transform_provider_output(stream.provider_id, line)
            IN
            IF line = BadLine
            THEN /\ stream' = [stream EXCEPT !.stdout_task = "finished"]
                 /\ UNCHANGED channels
            ELSE /\ stream' = [stream EXCEPT !.stdout_read = @ + 1]
                 /\ channels' = IF emitted_line = <<>> THEN channels
                                ELSE emit_output_line(channels, "stdout", line_no,
                                                      emitted_line[1])
       ELSE /\ stream.closed
            /\ stream' = [stream EXCEPT !.stdout_task = "finished"]
            /\ UNCHANGED channels
    /\ UNCHANGED nonStreamVars

\* One turn of the stderr task's loop.
stderr_task_next_line ==
    /\ stream.stderr_task = "reading"
    /\ IF stream.stderr_read < Len(stream.stderr)
       THEN LET line_no == next_line(stream.stderr, stream.stderr_read)
                line == stream.stderr[line_no]
            IN
            /\ stream' = [stream EXCEPT !.stderr_read = @ + 1]
            /\ channels' =
                   IF stream.provider_id = "claude"
                   THEN emit_error_line(channels, line)
                   ELSE emit_error_line(
                            emit_output_line(channels, "stderr", line_no,
                                             wrap_as_assistant_text(line)),
                            line)
       ELSE /\ stream.closed
            /\ stream' = [stream EXCEPT !.stderr_task = "finished"]
            /\ UNCHANGED channels
    /\ UNCHANGED nonStreamVars

(***************************************************************************)
(* Provider sessions: spawn_provider_session_process and                   *)
(* cancel_provider_session                                                 *)
(***************************************************************************)
\* The processes started by spawn_provider_session_process, in start order.
SessionProcs == 1..MaxSessionProcs

\* The session id the child of process p prints in its system/init line.
SessionIdOf(p) == p

NoProcess == 0

NewSession ==
    [pc |-> "new", child |-> "none", status |-> 0, wrote_init |-> FALSE,
     session_id_holder |-> <<>>, stdout_task |-> "none", wait_task |-> "none",
     waits_on |-> NoProcess]

IdleCanceller == [pc |-> "idle", session_id |-> 0, killed |-> FALSE]

\* The exit statuses of a child that ends by itself, and of one that was
\* sent a signal (it dies of the signal or handles SIGTERM and exits 143).
OwnExitStatuses == {0, 1}
TermExitStatuses == {143, Signalled}

\* The scoped event provider-session-complete:<session_id>.
ScopedCompletion(session_id, status) ==
    [event |-> "provider-session-complete", session_id |-> session_id, status |-> status]

\* child.kill().await on a child handle: SIGKILL unless it has exited.
KillChild(ps, q) ==
    IF q # NoProcess /\ ps[q].child = "alive"
    THEN [ps EXCEPT ![q].child = "exited", ![q].status = Signalled]
    ELSE ps

\* cmd.spawn() and taking the pipes.
spawn_provider_session_process(p) ==
    /\ provider_session[p].pc = "new"
    /\ \A q \in SessionProcs : q < p => provider_session[q].pc # "new"
    /\ provider_session' = [provider_session EXCEPT ![p].pc = "spawned", ![p].child = "alive"]
    /\ UNCHANGED <<current_process, process_lock, session_registry, session_events, canceller, cancel_calls>>
    /\ UNCHANGED nonSessionVars

\* Under the current_process mutex: kill the child the slot holds, store the
\* new one; then the stdout, stderr and wait tasks are spawned.
store_current_process(p) ==
    /\ provider_session[p].pc = "spawned"
    /\ process_lock = NoProcess
    /\ provider_session' =
          [KillChild(provider_session, current_process) EXCEPT
              ![p].pc = "stored", ![p].stdout_task = "reading", ![p].wait_task = "joining"]
    /\ current_process' = p
    /\ UNCHANGED <<process_lock, session_registry, session_events, canceller, cancel_calls>>
    /\ UNCHANGED nonSessionVars

\* The child prints its system/init line.
session_child_init(p) ==
    /\ provider_session[p].child = "alive"
    /\ ~provider_session[p].wrote_init
    /\ provider_session' = [provider_session EXCEPT ![p].wrote_init = TRUE]
    /\ UNCHANGED <<current_process, process_lock, session_registry, session_events, canceller, cancel_calls>>
    /\ UNCHANGED nonSessionVars

\* The child exits by itself.
session_child_exit(p) ==
    /\ provider_session[p].child = "alive"
    /\ \E st \in OwnExitStatuses :
          provider_session' = [provider_session EXCEPT ![p].child = "exited", ![p].status = st]
    /\ UNCHANGED <<current_process, process_lock, session_registry, session_events, canceller, cancel_calls>>
    /\ UNCHANGED nonSessionVars

\* The stdout task reads the init line: it fills session_id_holder and
\* registers the session (register_provider_session may fail).
session_stdout_init(p) ==
    /\ provider_session[p].stdout_task = "reading"
    /\ provider_session[p].wrote_init
    /\ provider_session[p].session_id_holder = <<>>
    /\ provider_session' = [provider_session EXCEPT ![p].session_id_holder = <<SessionIdOf(p)>>]
    /\ \E registered \in BOOLEAN :
          session_registry' = IF registered THEN session_registry \cup {p} ELSE session_registry
    /\ UNCHANGED <<current_process, process_lock, session_events, canceller, cancel_calls>>
    /\ UNCHANGED nonSessionVars

\* The pipes are closed and every line was read: the reader tasks end.
session_stdout_eof(p) ==
    /\ provider_session[p].stdout_task = "reading"
    /\ provider_session[p].child = "exited"
    /\ provider_session[p].wrote_init => provider_session[p].session_id_holder # <<>>
    /\ provider_session' = [provider_session EXCEPT ![p].stdout_task = "done"]
    /\ UNCHANGED <<current_process, process_lock, session_registry, session_events, canceller, cancel_calls>>
    /\ UNCHANGED nonSessionVars

\* The wait task, after both reader tasks: lock current_process and take
\* whatever child the slot holds.  With an empty slot it unregisters and ends.
session_wait_take(p) ==
    /\ provider_session[p].wait_task = "joining"
    /\ provider_session[p].stdout_task = "done"
    /\ process_lock = NoProcess
    /\ IF current_process # NoProcess
       THEN /\ provider_session' = [provider_session EXCEPT ![p].wait_task = "waiting",
                                                            ![p].waits_on = current_process]
            /\ process_lock' = p
            /\ UNCHANGED session_registry
       ELSE /\ provider_session' = [provider_session EXCEPT ![p].wait_task = "done"]
            /\ session_registry' = session_registry \ {p}
            /\ UNCHANGED process_lock
    /\ current_process' = NoProcess
    /\ UNCHANGED <<session_events, canceller, cancel_calls>>
    /\ UNCHANGED nonSessionVars

\* child.wait() returns: the scoped completion is emitted when the holder
\* has a session id, the run is unregistered and the mutex released.
session_wait_exit(p) ==
    LET q == provider_session[p].waits_on
        holder == provider_session[p].session_id_holder
        status == completion_status_from_exit_status(provider_session[q].status)
    IN /\ provider_session[p].wait_task = "waiting"
       /\ provider_session[q].child = "exited"
       /\ session_events' = IF holder # <<>>
                            THEN Append(session_events, ScopedCompletion(holder[1], status))
                            ELSE session_events
       /\ session_registry' = session_registry \ {p}
       /\ provider_session' = [provider_session EXCEPT ![p].wait_task = "done"]
       /\ process_lock' = NoProcess
       /\ UNCHANGED <<current_process, canceller, cancel_calls>>
       /\ UNCHANGED nonSessionVars

\* cancel_provider_session(Some(sid)), method 1: the registry entry of the
\* session, if any, is killed through kill_process.
cancel_provider_session_registry(sid) ==
    /\ canceller.pc = "idle"
    /\ cancel_calls < MaxCancelCalls
    /\ \E p \in SessionProcs :
          /\ provider_session[p].session_id_holder = <<sid>>
          /\ provider_session[p].wait_task # "done"
    /\ LET found == \E p \in session_registry : SessionIdOf(p) = sid
           p == CHOOSE p \in SessionProcs : SessionIdOf(p) = sid
           alive == provider_session[p].child = "alive"
       IN \E reported, removed \in BOOLEAN : \E st \in TermExitStatuses :
             /\ provider_session' =
                   IF found /\ alive
                   THEN [provider_session EXCEPT ![p].child = "exited", ![p].status = st]
                   ELSE provider_session
             /\ session_registry' =
                   IF found /\ removed THEN session_registry \ {p} ELSE session_registry
             /\ canceller' =
                   [pc |-> IF RegistryKillResult(found, alive, reported) THEN "emit" ELSE "state",
                    session_id |-> sid,
                    killed |-> RegistryKillResult(found, alive, reported)]
    /\ cancel_calls' = cancel_calls + 1
    /\ UNCHANGED <<current_process, process_lock, session_events>>
    /\ UNCHANGED nonSessionVars

\* Method 2, when the registry did not kill: take the child of the
\* current_process slot and kill it.
cancel_provider_session_state ==
    /\ canceller.pc = "state"
    /\ process_lock = NoProcess
    /\ provider_session' = KillChild(provider_session, current_process)
    /\ current_process' = NoProcess
    /\ canceller' = [canceller EXCEPT !.pc = "emit"]
    /\ UNCHANGED <<process_lock, session_registry, session_events, cancel_calls>>
    /\ UNCHANGED nonSessionVars

\* "Always emit cancellation events": provider-session-complete:<sid> with
\* status cancelled.
cancel_provider_session_emit ==
    /\ canceller.pc = "emit"
    /\ session_events' = Append(session_events, ScopedCompletion(canceller.session_id, "cancelled"))
    /\ canceller' = IdleCanceller
    /\ UNCHANGED <<provider_session, current_process, process_lock, session_registry,
                   cancel_calls>>
    /\ UNCHANGED nonSessionVars

(***************************************************************************)
(* The PTY of one embedded terminal: write_embedded_terminal_input, the    *)
(* reader thread and the per-session lock                                  *)
(***************************************************************************)
\* data.len() of a write_embedded_terminal_input call.
WriteLengths == 1..MaxWriteLen

\* Bytes the shell prints in answer to one byte of input.
EchoLengths == 0..MaxEcho

NoPty ==
    [session_lock |-> "free", input |-> 0, output |-> 0,
     writer |-> [pc |-> "idle", left |-> 0], calls |-> 0,
     shell_pending |-> 0, reader |-> "read", chunk |-> 0, drained |-> 0]

\* write_embedded_terminal_input: the session is cloned out of the map and
\* its mutex is locked.
input_write_lock(n) ==
    /\ pty.writer.pc = "idle"
    /\ pty.calls < MaxInputCalls
    /\ pty.session_lock = "free"
    /\ pty' = [pty EXCEPT !.session_lock = "writer",
                          !.writer = [pc |-> "writing", left |-> n],
                          !.calls = @ + 1]
    /\ UNCHANGED nonPtyVars

\* writer.write_all under the session lock: the write to the PTY master
\* takes what the kernel's input queue has room for and blocks on the rest.
input_write_bytes ==
    /\ pty.writer.pc = "writing"
    /\ pty.writer.left > 0
    /\ pty.input < PtyInputCapacity
    /\ LET k == IF pty.writer.left < PtyInputCapacity - pty.input
                THEN pty.writer.left ELSE PtyInputCapacity - pty.input
       IN pty' = [pty EXCEPT !.input = @ + k, !.writer.left = @ - k]
    /\ UNCHANGED nonPtyVars

\* flush, mark_input_write_result, Ok(()): the guard is dropped.
input_write_return ==
    /\ pty.writer.pc = "writing"
    /\ pty.writer.left = 0
    /\ pty' = [pty EXCEPT !.session_lock = "free", !.writer = [pc |-> "idle", left |-> 0]]
    /\ UNCHANGED nonPtyVars

\* The shell, when it is not in the middle of a write, reads a byte of its
\* input and has an answer to print.
shell_reads_input(echo) ==
    /\ pty.shell_pending = 0
    /\ pty.input > 0
    /\ pty' = [pty EXCEPT !.input = @ - 1, !.shell_pending = echo]
    /\ UNCHANGED nonPtyVars

\* The shell's write to the PTY slave: it blocks while the output queue is
\* full.
shell_writes_output ==
    /\ pty.shell_pending > 0
    /\ pty.output < PtyOutputCapacity
    /\ pty' = [pty EXCEPT !.output = @ + 1, !.shell_pending = @ - 1]
    /\ UNCHANGED nonPtyVars

\* Reader thread: reader.read(&mut buffer) returns Ok(read_bytes).
drain_read ==
    /\ pty.reader = "read"
    /\ pty.output > 0
    /\ pty' = [pty EXCEPT !.reader = "mark", !.chunk = pty.output, !.output = 0]
    /\ UNCHANGED nonPtyVars

\* Reader thread: session_for_reader.lock(), mark_output_read, unlock, then
\* the decoder and the emit; back to read.
drain_mark_output_read ==
    /\ pty.reader = "mark"
    /\ pty.session_lock = "free"
    /\ pty' = [pty EXCEPT !.reader = "read", !.chunk = 0, !.drained = @ + pty.chunk]
    /\ UNCHANGED nonPtyVars

(***************************************************************************)
(* Web server: execution requests of one WebSocket connection, the cancel  *)
(* endpoint and the close of the connection                                *)
(***************************************************************************)
\* The execution requests sent on the connection, in the order sent.
WebRequests == 1..MaxWebRequests

NoSender == 0

\* A request: its spawned task, its provider child and its watch channel
\* (the value last sent, and whether the task has acted on it).
NewWebRequest == [task |-> "none", child |-> "none", cancel |-> FALSE]

NoWebSocket == [open |-> FALSE, closed |-> FALSE, active_cancellations |-> NoSender]

\* The WebSocket upgrade: the session is put into active_sessions.
web_socket_open ==
    /\ ~web_socket.open /\ ~web_socket.closed
    /\ web_socket' = [web_socket EXCEPT !.open = TRUE]
    /\ UNCHANGED web_request
    /\ UNCHANGED nonWebVars

\* A text message that parses as a request: a new watch channel, whose
\* sender replaces the one stored under the websocket session id, and the
\* spawn of the task that runs the command.
web_socket_request(r) ==
    /\ web_socket.open
    /\ web_request[r].task = "none"
    /\ \A q \in WebRequests : q < r => web_request[q].task # "none"
    /\ web_socket' = [web_socket EXCEPT !.active_cancellations = r]
    /\ web_request' = [web_request EXCEPT ![r].task = "spawned"]
    /\ UNCHANGED nonWebVars

\* execute_provider_session_command: the child is spawned and the task
\* enters wait_for_provider_process_completion.
web_task_spawn_child(r) ==
    /\ web_request[r].task = "spawned"
    /\ web_request' = [web_request EXCEPT ![r].task = "waiting", ![r].child = "running"]
    /\ UNCHANGED web_socket
    /\ UNCHANGED nonWebVars

\* The provider process ends by itself.
web_child_exit(r) ==
    /\ web_request[r].child = "running"
    /\ web_request' = [web_request EXCEPT ![r].child = "exited"]
    /\ UNCHANGED web_socket
    /\ UNCHANGED nonWebVars

\* wait_for_provider_process_completion, child.wait() arm.
web_task_wait_exited(r) ==
    /\ web_request[r].task = "waiting"
    /\ web_request[r].child = "exited"
    /\ web_request' = [web_request EXCEPT ![r].task = "completing"]
    /\ UNCHANGED web_socket
    /\ UNCHANGED nonWebVars

\* wait_for_provider_process_completion, cancel_rx.changed() arm with the
\* value true: child.kill() and child.wait().  (An Err of changed(), the
\* sender being dropped, only continues the loop.)
web_task_wait_cancelled(r) ==
    /\ web_request[r].task = "waiting"
    /\ web_request[r].cancel
    /\ web_request' = [web_request EXCEPT ![r].task = "completing", ![r].child = "killed"]
    /\ UNCHANGED web_socket
    /\ UNCHANGED nonWebVars

\* The end of the task: the completion message, then
\* cancellations.remove(&websocket_session_id).
web_task_finish(r) ==
    /\ web_request[r].task = "completing"
    /\ web_request' = [web_request EXCEPT ![r].task = "done"]
    /\ web_socket' = [web_socket EXCEPT !.active_cancellations = NoSender]
    /\ UNCHANGED nonWebVars

\* The cancel endpoint for the session: send(true) on the sender stored
\* under the websocket session id; without one the answer is an error.
web_cancel_provider_session ==
    /\ web_socket.open
    /\ web_socket.active_cancellations # NoSender
    /\ ~web_request[web_socket.active_cancellations].cancel
    /\ web_request' = [web_request EXCEPT ![web_socket.active_cancellations].cancel = TRUE]
    /\ UNCHANGED web_socket
    /\ UNCHANGED nonWebVars

\* The message loop ends: send(true) on the stored sender, then
\* remove_websocket_session_state.
web_socket_close ==
    /\ web_socket.open
    /\ web_request' =
          IF web_socket.active_cancellations # NoSender
          THEN [web_request EXCEPT ![web_socket.active_cancellations].cancel = TRUE]
          ELSE web_request
    /\ web_socket' = [open |-> FALSE, closed |-> TRUE, active_cancellations |-> NoSender]
    /\ UNCHANGED nonWebVars

(***************************************************************************)
(* Specifications                                                          *)
(***************************************************************************)
SyncInit ==
    /\ sequence = 0
    /\ connected_clients = 0
    /\ snapshot = NoSnapshot
    /\ event_tx = <<>>
    /\ allocations = <<>>
    /\ publisher = [t \in PublisherTasks |-> IdlePublisher]
    /\ ws = [c \in WsClients |-> ClosedWs]

RunInit ==
    /\ agent_runs = [r \in RunIds |-> AbsentRow]
    /\ db_lock = "free"
    /\ child = [r \in RunIds |-> NoChild]
    /\ stdout_task = [r \in RunIds |-> [pc |-> "none", read |-> 0]]
    /\ first_output = [r \in RunIds |-> FALSE]
    /\ registry = {}
    /\ spawner = [r \in RunIds |-> "new"]
    /\ monitor = [r \in RunIds |-> IdleMonitor]
    /\ killer = IdleKiller
    /\ cleanup = IdleCleanup
    /\ complete_events = [r \in RunIds |-> <<>>]
    /\ cancelled_events = [r \in RunIds |-> 0]
    /\ kill_log = <<>>

PairInit ==
    /\ clock = 0
    /\ pairing_codes = [code \in PairCodes |-> NoCode]
    /\ claim = [q \in ClaimRequests |-> IdleClaim]

UsageInit ==
    /\ transcripts = [p \in SourcePaths |-> [lines |-> <<>>, mtime |-> 0]]
    /\ source_files = [p \in SourcePaths |-> NoSourceFileRow]
    /\ usage_events = {}
    /\ is_running = FALSE
    /\ cancel_requested = FALSE
    /\ usage_status = DefaultStatus
    /\ sync_task = [t \in SyncCallers |-> NoSyncTask]
    /\ stale = [p \in SourcePaths |-> FALSE]
    /\ edits = 0
    /\ prev_run = [completed |-> FALSE, cancel_requested |-> FALSE, edits_at_start |-> 0]

DiscoverInit ==
    /\ discovery_entries = [key \in ProviderKeys |-> NoCacheEntry]
    /\ in_flight = {}
    /\ discover = [c \in DiscoverCallers |-> IdleDiscover]
    /\ instant = 0
    /\ probes = 0

AuthInit ==
    /\ sync_enabled = FALSE
    /\ mobile_devices = [d \in DeviceIds |-> NoDevice]
    /\ auth_response = NoAuthResponse
    /\ auth_requests = 0

DecoderInit ==
    decoder = [input |-> <<>>, unread |-> <<>>, pending |-> <<>>, output |-> <<>>, split |-> FALSE, eof |-> FALSE]

TermInit ==
    /\ sessions = {}
    /\ terminal = [t \in TerminalIds |-> NoTerminal]
    /\ tmux_sessions = {}
    /\ closer = [k \in CloseCallers |-> IdleCloser]

ArgvInit == argv = NoArgv

NormalizeInit == normalized = NoNormalized

StreamInit ==
    /\ stream = NoStream
    /\ channels = NoChannels

SessionInit ==
    /\ provider_session = [p \in SessionProcs |-> NewSession]
    /\ current_process = NoProcess
    /\ process_lock = NoProcess
    /\ session_registry = {}
    /\ session_events = <<>>
    /\ canceller = IdleCanceller
    /\ cancel_calls = 0

PtyInit == pty = NoPty

WebInit ==
    /\ web_socket = NoWebSocket
    /\ web_request = [r \in WebRequests |-> NewWebRequest]

Init == SyncInit /\ RunInit /\ PairInit /\ UsageInit /\ DiscoverInit /\ AuthInit /\ DecoderInit /\ TermInit /\ ArgvInit /\ NormalizeInit /\ StreamInit /\ SessionInit /\ PtyInit /\ WebInit

SyncNext ==
    \/ \E t \in PublisherTasks : publish_snapshot_allocate(t)
    \/ \E t \in PublisherTasks : publish_snapshot_store(t)
    \/ \E t \in PublisherTasks : publish_event_allocate(t)
    \/ \E t \in PublisherTasks : publish_event_send(t)
    \/ \E c \in WsClients : websocket_enter(c)
    \/ \E c \in WsClients : websocket_resnapshot_check(c)
    \/ \E c \in WsClients : websocket_forward(c)
    \/ \E c \in WsClients : websocket_heartbeat(c)
    \/ \E c \in WsClients : websocket_exit(c)

SyncSpec == Init /\ [][SyncNext]_vars

RunNext ==
    \/ \E r \in RunIds : execute_agent_insert(r)
    \/ \E r \in RunIds : spawn_child(r)
    \/ \E r \in RunIds : spawn_mark_running(r)
    \/ \E r \in RunIds : spawn_start_tasks(r)
    \/ \E r \in RunIds : spawn_error_return(r)
    \/ \E r \in RunIds : spawn_register_error(r)
    \/ \E r \in RunIds : child_write(r)
    \/ \E r \in RunIds : child_exit(r)
    \/ \E r \in RunIds : child_reap_orphan(r)
    \/ \E r \in RunIds : stdout_read(r)
    \/ \E r \in RunIds : stdout_eof(r)
    \/ \E r \in RunIds : monitor_poll(r)
    \/ \E r \in RunIds : monitor_timeout_finish(r)
    \/ \E r \in RunIds : monitor_wait(r)
    \/ \E r \in RunIds : monitor_finalize(r)
    \/ \E r \in RunIds : monitor_finish(r)
    \/ \E r \in RunIds : kill_agent_session_begin(r)
    \/ kill_agent_session_fallback
    \/ kill_agent_session_update
    \/ cleanup_select
    \/ cleanup_probe
    \/ cleanup_return

RunSpec == Init /\ [][RunNext]_vars

PairNext ==
    \/ clock_tick
    \/ \E code \in PairCodes : pair_start(code)
    \/ \E q \in ClaimRequests : pair_claim_begin(q)
    \/ \E q \in ClaimRequests : pair_claim_commit(q)
    \/ \E q \in ClaimRequests : pair_claim_respond(q)

PairSpec == Init /\ [][PairNext]_vars

UsageNext ==
    \/ \E p \in SourcePaths, k \in LineKinds : transcript_append(p, k)
    \/ \E p \in SourcePaths : transcript_truncate(p)
    \/ \E p \in SourcePaths, i \in 1..MaxFileLines, k \in LineKinds :
          transcript_rewrite(p, i, k)
    \/ \E t \in SyncCallers : start_usage_index_sync_try(t)
    \/ \E t \in SyncCallers : start_usage_index_sync_spawn(t)
    \/ cancel_usage_index_sync
    \/ \E t \in SyncCallers : run_usage_index_sync_list(t)
    \/ \E t \in SyncCallers : run_usage_index_sync_next_file(t)
    \/ \E t \in SyncCallers : process_file_read(t)
    \/ \E t \in SyncCallers : usage_index_sync_finish(t)

UsageSpec == Init /\ [][UsageNext]_vars

\* The usage index with transcripts of resumed sessions.
UsageResumeNext ==
    \/ UsageNext
    \/ transcript_append_resumed

UsageResumeSpec == Init /\ [][UsageResumeNext]_vars

DiscoverNext ==
    \/ instant_tick
    \/ \E c \in DiscoverCallers, id \in ProviderIds : discover_agent_enter(c, id)
    \/ \E c \in DiscoverCallers : discover_agent_check(c)
    \/ \E c \in DiscoverCallers : discover_agent_probe(c)
    \/ \E c \in DiscoverCallers : discover_agent_store(c)
    \/ \E c \in DiscoverCallers : discover_agent_notify(c)
    \/ \E c \in DiscoverCallers : discover_agent_wake(c)
    \/ \E c \in DiscoverCallers : discover_agent_dropped(c)

DiscoverSpec == Init /\ [][DiscoverNext]_vars

\* Every caller's future is polled when it can make progress, and the
\* blocking probe ends (each command it runs has a timeout).
DiscoverLiveSpec ==
    /\ DiscoverSpec
    /\ \A c \in DiscoverCallers :
          /\ WF_vars(discover_agent_check(c))
          /\ WF_vars(discover_agent_probe(c))
          /\ WF_vars(discover_agent_store(c))
          /\ WF_vars(discover_agent_notify(c))
          /\ WF_vars(discover_agent_wake(c))

AuthNext ==
    \/ \E enabled \in BOOLEAN : mobile_sync_set_enabled(enabled)
    \/ \E d \in DeviceIds, t \in RawTokens : create_device_token(d, t)
    \/ \E d \in DeviceIds : mobile_sync_revoke_device(d)
    \/ \E request \in HttpRequests : snapshot_handler(request)
    \/ \E request \in HttpRequests, target \in DeviceIds :
          device_revoke_handler(request, target)
    \/ \E request \in WsRequests : websocket_handler(request)

AuthSpec == Init /\ [][AuthNext]_vars

DecoderNext ==
    \/ \E b \in DecoderBytes : decoder_byte_arrives(b)
    \/ decoder_push
    \/ decoder_flush_eof

DecoderSpec == Init /\ [][DecoderNext]_vars

TermNext ==
    \/ \E t \in TerminalIds, arg \in PersistentIdArgs, spawned \in BOOLEAN :
          start_embedded_terminal(t, arg, spawned)
    \/ \E t \in TerminalIds, bytes \in PtyWrites : pty_write(t, bytes)
    \/ \E t \in TerminalIds, detach \in BOOLEAN : child_ends(t, detach)
    \/ \E t \in TerminalIds : reader_read(t)
    \/ \E t \in TerminalIds, read_error \in BOOLEAN : reader_break(t, read_error)
    \/ \E t \in TerminalIds : reader_emit_exit(t)
    \/ \E t \in TerminalIds : reader_remove(t)
    \/ \E k \in CloseCallers, t \in TerminalIds, terminate \in TerminateArgs :
          close_remove(k, t, terminate)
    \/ \E k \in CloseCallers : close_kill(k)
    \/ \E k \in CloseCallers : close_kill_tmux(k)

TermSpec == Init /\ [][TermNext]_vars

ArgvNext ==
    \/ \E provider_id \in DescriptorProviders, kind \in CommandKinds, model \in Models,
          session_id \in SessionIdArgs, reasoning_effort \in ReasoningEffortArgs :
          provider_build_args(provider_id, kind, model, session_id, reasoning_effort)
    \/ \E provider_id \in ArgvProviders, model \in Models,
          system_prompt \in {<<>>, <<SystemPrompt>>},
          reasoning_effort \in ReasoningEffortArgs :
          execute_agent_args(provider_id, model, system_prompt, reasoning_effort)
    \/ \E provider_id \in ArgvProviders, model \in Models,
          reasoning_effort \in ReasoningEffortArgs :
          execute_agent_session_args(provider_id, model, reasoning_effort)

ArgvSpec == Init /\ [][ArgvNext]_vars

NormalizeNext ==
    \/ \E provider_id \in NormalizerProviders, line \in NormalizerLines :
          normalize(provider_id, line)
    \/ normalize_replay

NormalizeSpec == Init /\ [][NormalizeNext]_vars

StreamNext ==
    \/ \E provider_id \in StreamProviders : spawn_stream_tasks(provider_id)
    \/ \E line \in StdoutLines : stream_child_writes_stdout(line)
    \/ \E line \in StderrLines : stream_child_writes_stderr(line)
    \/ stream_child_closes
    \/ stdout_task_next_line
    \/ stderr_task_next_line

StreamSpec == Init /\ [][StreamNext]_vars

SessionNext ==
    \/ \E p \in SessionProcs : spawn_provider_session_process(p)
    \/ \E p \in SessionProcs : store_current_process(p)
    \/ \E p \in SessionProcs : session_child_init(p)
    \/ \E p \in SessionProcs : session_child_exit(p)
    \/ \E p \in SessionProcs : session_stdout_init(p)
    \/ \E p \in SessionProcs : session_stdout_eof(p)
    \/ \E p \in SessionProcs : session_wait_take(p)
    \/ \E p \in SessionProcs : session_wait_exit(p)
    \/ \E sid \in {SessionIdOf(p) : p \in SessionProcs} : cancel_provider_session_registry(sid)
    \/ cancel_provider_session_state
    \/ cancel_provider_session_emit

SessionSpec == Init /\ [][SessionNext]_vars

PtyNext ==
    \/ \E n \in WriteLengths : input_write_lock(n)
    \/ input_write_bytes
    \/ input_write_return
    \/ \E echo \in EchoLengths : shell_reads_input(echo)
    \/ shell_writes_output
    \/ drain_read
    \/ drain_mark_output_read

PtySpec == Init /\ [][PtyNext]_vars

WebNext ==
    \/ web_socket_open
    \/ \E r \in WebRequests : web_socket_request(r)
    \/ \E r \in WebRequests : web_task_spawn_child(r)
    \/ \E r \in WebRequests : web_child_exit(r)
    \/ \E r \in WebRequests : web_task_wait_exited(r)
    \/ \E r \in WebRequests : web_task_wait_cancelled(r)
    \/ \E r \in WebRequests : web_task_finish(r)
    \/ web_cancel_provider_session
    \/ web_socket_close

WebSpec == Init /\ [][WebNext]_vars

\* The reader thread is an OS thread of its own: once it has left its loop
\* nothing can keep it from emitting terminal-exit and taking the map lock.
TermLiveSpec ==
    /\ TermSpec
    /\ \A t \in TerminalIds : WF_vars(reader_emit_exit(t)) /\ WF_vars(reader_remove(t))

\* The tasks of a run are scheduled by the runtime and the db mutex is
\* handed to each waiter in the end; the child is taken to exit at some
\* time, by itself or by a signal.
RunLiveSpec ==
    /\ RunSpec
    /\ \A r \in RunIds :
          /\ SF_vars(spawn_mark_running(r))
          /\ WF_vars(spawn_start_tasks(r) \/ spawn_error_return(r) \/ spawn_register_error(r))
          /\ WF_vars(child_exit(r))
          /\ WF_vars(stdout_read(r))
          /\ WF_vars(stdout_eof(r))
          /\ WF_vars(monitor_poll(r))
          /\ WF_vars(monitor_timeout_finish(r))
          /\ WF_vars(monitor_wait(r))
          /\ WF_vars(monitor_finalize(r))
          /\ WF_vars(monitor_finish(r))
    /\ WF_vars(kill_agent_session_fallback) /\ WF_vars(kill_agent_session_update)
    /\ WF_vars(cleanup_probe) /\ WF_vars(cleanup_return)

(***************************************************************************)
(* C1  Sequence allocation is dense and duplicate-free: the k-th call of   *)
(* next_sequence on one broker returns k, whatever the interleaving of     *)
(* publish_snapshot and publish_event.                                     *)
(***************************************************************************)
C1_DenseAllocation ==
    \A k \in 1..Len(allocations) : allocations[k].sequence = k

\* Two tasks have interleaved their allocations: a snapshot and an event of
\* different tasks both hold a number.
C1_Witness ==
    \E i, j \in 1..Len(allocations) :
        /\ allocations[i].task # allocations[j].task
        /\ allocations[i].kind = "snapshot"
        /\ allocations[j].kind = "event"
        /\ allocations[j].event_type = "workspace.state_changed"

(***************************************************************************)
(* C2  Every snapshot of sequence N is followed immediately by its         *)
(* snapshot.updated envelope of sequence N+1: the allocation after a       *)
(* snapshot's is the snapshot.updated event that names it.                 *)
(***************************************************************************)
C2_SnapshotUpdatedFollows ==
    \A k \in 1..Len(allocations) :
        (allocations[k].kind = "snapshot" /\ k < Len(allocations))
            => /\ allocations[k + 1].event_type = "snapshot.updated"
               /\ allocations[k + 1].payload = allocations[k].sequence
               /\ allocations[k + 1].sequence = allocations[k].sequence + 1

(***************************************************************************)
(* C3  As claimed: the frames one client is sent carry strictly increasing *)
(* sequence numbers, heartbeat and resnapshot_required frames included.    *)
(***************************************************************************)
C3_StrictlyIncreasingFrames ==
    \A c \in WsClients :
        \A i, j \in 1..Len(ws[c].sent) :
            i < j => ws[c].sent[i].sequence < ws[c].sent[j].sequence

(***************************************************************************)
(* C3  As amended: a frame forwarded from the broadcast channel carries    *)
(* the sequence allocated for that envelope, and no two forwarded frames   *)
(* of a client share one; a sync.heartbeat or sync.resnapshot_required     *)
(* frame allocates nothing and carries a sequence already handed out (at   *)
(* most the broker's current sequence).                                    *)
(***************************************************************************)
C3_AmendedFrames ==
    \A c \in WsClients :
        \A i \in 1..Len(ws[c].sent) :
            LET e == ws[c].sent[i] IN
            /\ e.sequence <= sequence
            /\ e.event_type \notin LoopBuiltTypes =>
                  /\ \E k \in 1..Len(allocations) :
                        /\ allocations[k].sequence = e.sequence
                        /\ allocations[k].event_type = e.event_type
                  /\ \A j \in 1..Len(ws[c].sent) :
                        (j # i /\ ws[c].sent[j].event_type \notin LoopBuiltTypes)
                            => ws[c].sent[j].sequence # e.sequence

\* A client has been sent an event frame and, after it, a heartbeat.
C3_Witness ==
    \E c \in WsClients :
        \E i, j \in 1..Len(ws[c].sent) :
            /\ i < j
            /\ ws[c].sent[i].event_type \notin LoopBuiltTypes
            /\ ws[c].sent[j].event_type = "sync.heartbeat"

(***************************************************************************)
(* C4  As claimed: the status of a run row only moves pending -> running   *)
(* -> completed, failed or cancelled, and a terminal status is never       *)
(* changed again by the monitor task, kill_agent_session or                *)
(* cleanup_finished_processes.                                             *)
(***************************************************************************)
AllowedStatusStep(old, new) ==
    \/ new = old
    \/ old = "absent" /\ new = "pending"
    \/ old = "pending" /\ new = "running"
    \/ old = "running" /\ new \in TerminalStatuses

C4_StatusLifecycle ==
    [][\A r \in RunIds : AllowedStatusStep(agent_runs[r].status, agent_runs'[r].status)]_vars

(***************************************************************************)
(* C5  As claimed: a row finalized by the monitor task after the child     *)
(* exited holds completed for exit code 0, cancelled for 130 or 143 and    *)
(* failed for any other exit, and the completion payload status is         *)
(* success, cancelled and error in the same cases.                         *)
(***************************************************************************)
C5_ExitClassification ==
    \A r \in RunIds :
        (monitor[r].pc \in {"finish", "done"} /\ ~monitor[r].timed_out
                /\ monitor[r].wrote # "none")
            => LET code == monitor[r].exit_code IN
               /\ monitor[r].wrote = IF code = 0 THEN "completed"
                                     ELSE IF code \in {130, 143} THEN "cancelled"
                                     ELSE "failed"
               /\ completion_status_from_exit_status(code) =
                      IF code = 0 THEN "success"
                      ELSE IF code \in {130, 143} THEN "cancelled"
                      ELSE "error"

(***************************************************************************)
(* C6  In every reachable state of agent_runs a row with status completed, *)
(* failed or cancelled has completed_at set and a row with status pending  *)
(* or running has completed_at null.                                       *)
(***************************************************************************)
C6_CompletedAtMatchesStatus ==
    \A r \in RunIds :
        /\ agent_runs[r].status \in TerminalStatuses => agent_runs[r].completed_at
        /\ agent_runs[r].status \in {"pending", "running"} => ~agent_runs[r].completed_at

\* cleanup_finished_processes has marked a row completed.
C6_Witness ==
    \E r \in RunIds :
        /\ r \in cleanup.cleaned_up
        /\ agent_runs[r].status = "completed"
        /\ agent_runs[r].completed_at

C8_SecondKillIsNoOp ==
    \A i, j \in 1..Len(kill_log) :
        (i < j /\ kill_log[i].run = kill_log[j].run /\ kill_log[i].ok)
            => /\ ~kill_log[j].emitted
               /\ ~kill_log[j].row_changed
               /\ ~kill_log[j].registry_changed

(***************************************************************************)
(* C9  As claimed: cleanup_finished_processes marks only rows that have    *)
(* status running (and a pid that is gone) and leaves every other row      *)
(* untouched: no row it marked had another status when it was marked.      *)
(***************************************************************************)
C9_CleanupMarksOnlyRunning ==
    /\ cleanup.overwritten = {}
    /\ \A r \in cleanup.cleaned_up : agent_runs[r].pid # NullPid

(***************************************************************************)
(* C10  A pairing code is consumed at most once and only while unexpired   *)
(* and unclaimed: of all pair/claim requests for one code at most one      *)
(* passes the check, and one that passed found the code in the table,      *)
(* unclaimed (it is the request that claimed it) and with expires_at after *)
(* the time the request read from the clock.                               *)
(***************************************************************************)
Consumed(q) == claim[q].pc = "claimed" \/ claim[q].response \in {"ok", "server_error"}

RunningSyncs ==
    {t \in SyncCallers :
        sync_task[t].pc \in {"mark_started", "list", "next_file", "read", "finish"}}

C11_OneSyncAtATime ==
    /\ Cardinality(RunningSyncs) <= 1
    /\ is_running <=> RunningSyncs # {}
    /\ \A t \in SyncCallers :
          sync_task[t].pc = "busy" => sync_task[t] = [NoSyncTask EXCEPT !.pc = "busy"]

\* One call is turned away while the sync of the other is reading a file.
C11_Witness ==
    \E t, u \in SyncCallers : sync_task[t].pc = "busy" /\ sync_task[u].pc = "read"

(***************************************************************************)
(* C12  Cancelling keeps partial progress exact: for every committed       *)
(* source_files row of a transcript that was not truncated or rewritten    *)
(* since its scan began, last_offset is the byte offset after last_line    *)
(* lines, every usage line up to last_line has its event committed, and no *)
(* committed event of the file lies beyond last_line; so a later sync      *)
(* resumes neither after a line it never read nor before one it inserted.  *)
(***************************************************************************)
C12_CursorCoversCommittedLines ==
    \A p \in SourcePaths :
        (source_files[p].present /\ ~stale[p]) =>
            LET row == source_files[p]
                lines == transcripts[p].lines
            IN /\ row.last_line <= Len(lines)
               /\ row.last_offset = row.last_line * LineBytes
               /\ \A i \in 1..row.last_line :
                     lines[i] = "usage" =>
                        \E e \in usage_events : e.source_path = p /\ e.source_line = i
               /\ \A e \in usage_events :
                     e.source_path = p =>
                        /\ e.source_line <= row.last_line
                        /\ lines[e.source_line] = "usage"

\* A sync was cancelled after the first of two usage lines of a.jsonl: the
\* committed cursor stands after line 1 and only the event of line 1 is in
\* the table.
C12_Witness ==
    /\ usage_status.cancelled
    /\ ~stale["a.jsonl"]
    /\ transcripts["a.jsonl"].lines = <<"usage", "usage">>
    /\ source_files["a.jsonl"].present
    /\ source_files["a.jsonl"].last_line = 1
    /\ \E e \in usage_events : e.source_path = "a.jsonl" /\ e.source_line = 1

(***************************************************************************)
(* C13  When process_file finds a tracked file whose size is below the     *)
(* stored last_offset, or whose size equals the stored size while its      *)
(* mtime differs, it deletes every usage_events row of that source_path    *)
(* and the source_files row, and reads the file from offset zero, line     *)
(* zero.                                                                   *)
(***************************************************************************)
C13_RewrittenFileIsReset ==
    [][\A t \in SyncCallers :
          (sync_task[t].pc = "next_file" /\ sync_task'[t].pc = "read") =>
             LET p == sync_task'[t].path
                 row == source_files[p]
                 size == Len(transcripts[p].lines) * LineBytes
                 mtime == transcripts[p].mtime
             IN (/\ row.present
                 /\ \/ size < row.last_offset
                    \/ (size = row.size_bytes /\ mtime # row.modified_unix_ms))
                => /\ \A e \in usage_events' : e.source_path # p
                   /\ ~source_files'[p].present
                   /\ sync_task'[t].current_offset = 0
                   /\ sync_task'[t].current_line = 0]_vars

\* After a completed sync indexed a.jsonl, a later sync has reset it: the
\* file has lines, its row and events are gone, the read starts at zero.
C13_Witness ==
    \E t \in SyncCallers :
        /\ sync_task[t].pc = "read"
        /\ sync_task[t].path = "a.jsonl"
        /\ prev_run.completed
        /\ ~source_files["a.jsonl"].present
        /\ sync_task[t].current_offset = 0
        /\ Len(transcripts["a.jsonl"].lines) > 0
        /\ \A e \in usage_events : e.source_path # "a.jsonl"

(***************************************************************************)
(* C14  Every committed source_files row has last_offset <= size_bytes,    *)
(* also when the file grows or shrinks while it is scanned.                *)
(***************************************************************************)
C14_OffsetWithinSize ==
    \A p \in SourcePaths :
        source_files[p].present => source_files[p].last_offset <= source_files[p].size_bytes

(***************************************************************************)
(* C15  A sync that follows a sync which ran to its end without a cancel   *)
(* request, with no transcript changed since that first sync started,      *)
(* inserts no usage_events row.                                            *)
(***************************************************************************)
C15_SecondRunInsertsNothing ==
    \A t \in SyncCallers :
        (/\ sync_task[t].pc \in {"next_file", "read", "finish"}
         /\ prev_run.completed
         /\ ~prev_run.cancel_requested
         /\ prev_run.edits_at_start = edits)
        => sync_task[t].entries_indexed = 0 /\ sync_task[t].tx = {}

\* The second of two syncs over the same transcripts has come to its end;
\* the first one had indexed events.
C15_Witness ==
    \E t \in SyncCallers :
        /\ sync_task[t].pc = "finish"
        /\ sync_task[t].todo = <<>>
        /\ ~sync_task[t].failed
        /\ ~sync_task[t].cancelled
        /\ prev_run.completed
        /\ ~prev_run.cancel_requested
        /\ prev_run.edits_at_start = edits
        /\ usage_events # {}

(***************************************************************************)
(* C16  A failure on one line never aborts the sync: no sync ends with an  *)
(* error because of what a line holds.                                     *)
(***************************************************************************)
C16_LineFailureNeverAborts ==
    /\ usage_status.state # "error"
    /\ \A t \in SyncCallers : ~sync_task[t].failed

(***************************************************************************)
(* C17  Concurrent discover calls for one provider key coalesce: at most   *)
(* one probe executes for a key at any time, and a caller that waited for  *)
(* an in-flight probe runs no probe of its own and returns the value that  *)
(* probe cached.                                                           *)
(***************************************************************************)
ProbesExecuting(key) ==
    {c \in DiscoverCallers : discover[c].key = key /\ discover[c].pc = "probing"}

C17_CallersCoalesce ==
    /\ \A key \in ProviderKeys : Cardinality(ProbesExecuting(key)) <= 1
    /\ \A c \in DiscoverCallers :
          discover[c].waited_for # 0 =>
             /\ discover[c].probe = 0
             /\ discover[c].pc = "returned" =>
                   discover[c].returned.probe = discover[c].waited_for

\* C17 as amended: at most one probe executes for a key at any time; a
\* caller that waited and finds the cache entry of its key younger than the
\* TTL when it looks again returns that entry without a probe of its own;
\* and a caller that waited never returns a value older than the probe it
\* waited for.
C17_AmendedCoalesce ==
    /\ [](\A key \in ProviderKeys : Cardinality(ProbesExecuting(key)) <= 1)
    /\ [](\A c \in DiscoverCallers :
             (discover[c].waited_for # 0 /\ discover[c].pc = "returned") =>
                discover[c].returned.probe >= discover[c].waited_for)
    /\ [][\A c \in DiscoverCallers :
             LET entry == discovery_entries[discover[c].key]
             IN (/\ discover[c].pc = "lock"
                 /\ discover'[c].pc # "lock"
                 /\ discover[c].waited_for # 0
                 /\ entry.present
                 /\ instant - entry.checked_at < DiscoveryCacheTtl)
                => /\ discover'[c].pc = "returned"
                   /\ discover'[c].returned = entry.result
                   /\ discover'[c].probe = 0
                   /\ probes' = probes]_vars

\* A caller waited for the probe of another caller and returned what that
\* probe found, without a probe of its own.
C17_Witness ==
    \E c \in DiscoverCallers :
        /\ discover[c].pc = "returned"
        /\ discover[c].waited_for # 0
        /\ discover[c].probe = 0
        /\ discover[c].returned = [probe |-> discover[c].waited_for, found |-> TRUE]

(***************************************************************************)
(* C18  A WebSocket loop whose since has since + 1 < current_sequence      *)
(* sends sync.resnapshot_required with reason sequence_gap as its first    *)
(* frame, and every event frame after it is an envelope that was sent on   *)
(* the channel after the connection subscribed: nothing older is replayed. *)
(***************************************************************************)
IsResnapshot(e, reason) ==
    e.event_type = "sync.resnapshot_required" /\ e.payload.reason = reason

C18_ResnapshotThenOnlyNewEvents ==
    /\ [][\A c \in WsClients :
             (/\ ws[c].pc = "check"
              /\ ws'[c].pc = "loop"
              /\ ws[c].since + 1 < sequence)
             => /\ Len(ws'[c].sent) = 1
                /\ IsResnapshot(ws'[c].sent[1], "sequence_gap")]_vars
    /\ [](\A c \in WsClients :
             (Len(ws[c].sent) > 0 /\ IsResnapshot(ws[c].sent[1], "sequence_gap")) =>
                \A i \in 2..Len(ws[c].sent) :
                    ws[c].sent[i].event_type \notin LoopBuiltTypes =>
                       \E k \in (ws[c].setup + 1)..Len(event_tx) :
                           event_tx[k].sequence = ws[c].sent[i].sequence)

\* A client that connected behind got the resnapshot frame and then an
\* event; envelopes had been sent before it connected.
C18_Witness ==
    \E c \in WsClients :
        /\ Len(ws[c].sent) >= 2
        /\ IsResnapshot(ws[c].sent[1], "sequence_gap")
        /\ ws[c].sent[2].event_type \notin LoopBuiltTypes
        /\ ws[c].setup > 0

(***************************************************************************)
(* C19  Publishers never block on subscribers: a publisher that has built  *)
(* its envelope can always send it, however far a receiver is behind; and  *)
(* a receiver that is more than the channel capacity behind gets, on its   *)
(* next receive, the lag signal (forwarded as sync.resnapshot_required     *)
(* with reason subscriber_lagged) and is moved to the oldest retained      *)
(* envelope instead of being handed an overwritten one.                    *)
(***************************************************************************)
C19_PublishersNeverBlock ==
    /\ [](\A t \in PublisherTasks :
             publisher[t].pc = "event_send" => ENABLED publish_event_send(t))
    /\ [][\A c \in WsClients :
             (/\ ws[c].pc = "loop"
              /\ ws'[c].pc = "loop"
              /\ ws'[c].cursor # ws[c].cursor
              /\ Len(event_tx) - ws[c].cursor > BroadcastCapacity)
             => /\ Len(ws'[c].sent) = Len(ws[c].sent) + 1
                /\ IsResnapshot(ws'[c].sent[Len(ws'[c].sent)], "subscriber_lagged")
                /\ ws'[c].cursor = Len(event_tx) - BroadcastCapacity]_vars

\* A receiver fell more than the capacity behind, was sent the lag frame
\* and now stands at the oldest envelope the channel retains.
C19_Witness ==
    \E c \in WsClients :
        /\ \E i \in 1..Len(ws[c].sent) : IsResnapshot(ws[c].sent[i], "subscriber_lagged")
        /\ ws[c].cursor = Len(event_tx) - BroadcastCapacity

(***************************************************************************)
(* C20  connected_clients equals the number of WebSocket loops that are    *)
(* running, and it is never negative.                                      *)
(***************************************************************************)
RunningLoops == {c \in WsClients : ws[c].pc # "closed"}

C20_ClientsCountLoops ==
    /\ connected_clients = Cardinality(RunningLoops)
    /\ connected_clients >= 0

\* A loop that had sent frames has left through a break out of the select
\* loop, and the counter is back at zero.
C20_Witness ==
    /\ connected_clients = 0
    /\ \E c \in WsClients : ws[c].pc = "closed" /\ Len(ws[c].sent) >= 2

(***************************************************************************)
(* C21  A revoked device always maps to HTTP 401: once a device is         *)
(* revoked, every later HTTP or WebSocket authentication attempt with that *)
(* device's token is rejected with status 401.                             *)
(***************************************************************************)
\* The request presents the token of device d: as the bearer token, or, on
\* the WebSocket route, as the query token of a request without a bearer
\* token.
PresentsTokenOf(request, d) ==
    LET PresentedToken ==
            IF extract_bearer_token(request.authorization) # ""
            THEN extract_bearer_token(request.authorization)
            ELSE IF request.query # <<>> THEN trim(request.query[1]) ELSE ""
    IN /\ PresentedToken # ""
       /\ mobile_devices[d].present
       /\ mobile_devices[d].token_hash = hash_token(PresentedToken)

\* The last answered request reached the authentication step with the token
\* of a device that was revoked before the request.
AttemptWithRevokedToken ==
    /\ auth_response.endpoint # "none"
    /\ auth_response.status # 503
    /\ \E d \in auth_response.revoked_before : PresentsTokenOf(auth_response.request, d)

\* As stated: every such attempt is answered with status 401.
C21_RevokedMapsTo401 ==
    AttemptWithRevokedToken => auth_response.status = 401

\* Amended: every such attempt is rejected, with status 401 unless the
\* protocol version header, checked before the token, is the reason of a
\* status 400; and the revoked column of a row never returns to 0.
C21_AmendedRevokedRejected ==
    /\ [](AttemptWithRevokedToken =>
            /\ auth_response.device_id = ""
            /\ \/ auth_response.status = 401
               \/ /\ auth_response.status = 400
                  /\ ~verify_protocol_version(auth_response.request.version)
                  /\ extract_bearer_token(auth_response.request.authorization) # "")
    /\ [][\A d \in DeviceIds :
             (mobile_devices[d].present /\ mobile_devices[d].revoked # 0)
                 => (mobile_devices'[d].present /\ mobile_devices'[d].revoked # 0)]_vars

\* Both routes rejected a revoked token with 401: the last request did, on
\* the WebSocket route with the token in the query, and the device was
\* revoked through the HTTP endpoint by another device.
C21_Witness ==
    /\ AttemptWithRevokedToken
    /\ auth_response.endpoint = "ws"
    /\ auth_response.request.authorization = <<>>
    /\ auth_response.status = 401
    /\ \E d \in DeviceIds : mobile_devices[d].last_seen_at > 0

(***************************************************************************)
(* C26  For any byte stream cut into any sequence of reads, the            *)
(* concatenation of all chunks returned by Utf8StreamDecoder::push         *)
(* followed by the flush_eof output equals String::from_utf8_lossy applied *)
(* to the whole byte stream.                                               *)
(***************************************************************************)
\* Utf8Chunks::next of the standard library, which from_utf8_lossy iterates:
\* a byte outside the slice reads as 0, a valid sequence is kept, and the
\* bytes inspected up to the first that does not fit become one U+FFFD.
safe_get(bytes, k) == IF k <= Len(bytes) THEN bytes[k] ELSE 0

lossy_chunk(bytes, i) ==
    LET byte == bytes[i]
        w == utf8_char_width(byte)
    IN IF byte < 128 THEN [valid |-> TRUE, len |-> 1]
       ELSE IF w = 2
            THEN IF ~utf8_is_cont_byte(safe_get(bytes, i + 1))
                 THEN [valid |-> FALSE, len |-> 1]
                 ELSE [valid |-> TRUE, len |-> 2]
       ELSE IF w = 3
            THEN IF ~utf8_second_byte_ok(byte, safe_get(bytes, i + 1))
                 THEN [valid |-> FALSE, len |-> 1]
                 ELSE IF ~utf8_is_cont_byte(safe_get(bytes, i + 2))
                 THEN [valid |-> FALSE, len |-> 2]
                 ELSE [valid |-> TRUE, len |-> 3]
       ELSE IF w = 4
            THEN IF ~utf8_second_byte_ok(byte, safe_get(bytes, i + 1))
                 THEN [valid |-> FALSE, len |-> 1]
                 ELSE IF ~utf8_is_cont_byte(safe_get(bytes, i + 2))
                 THEN [valid |-> FALSE, len |-> 2]
                 ELSE IF ~utf8_is_cont_byte(safe_get(bytes, i + 3))
                 THEN [valid |-> FALSE, len |-> 3]
                 ELSE [valid |-> TRUE, len |-> 4]
       ELSE [valid |-> FALSE, len |-> 1]

RECURSIVE lossy_from(_, _)
lossy_from(bytes, i) ==
    IF i > Len(bytes) THEN <<>>
    ELSE LET c == lossy_chunk(bytes, i)
             last == IF i + c.len - 1 < Len(bytes) THEN i + c.len - 1 ELSE Len(bytes)
         IN (IF c.valid THEN <<code_point(bytes, i, c.len)>> ELSE <<REPLACEMENT_CHARACTER>>)
                \o lossy_from(bytes, last + 1)

from_utf8_lossy(bytes) == lossy_from(bytes, 1)

\* Once flush_eof has returned, the text returned by all calls is the lossy
\* decoding of all bytes fed, and nothing is left pending.
C26_DecoderEqualsLossy ==
    decoder.eof =>
        /\ decoder.output = from_utf8_lossy(decoder.input)
        /\ decoder.pending = <<>>

\* A stream whose three-byte sequence was split over two reads, followed by
\* a byte that cannot start a sequence and ended inside a sequence: the text
\* has a decoded char and two U+FFFD.
C26_Witness ==
    /\ decoder.eof
    /\ decoder.split
    /\ decoder.input = <<226, 128, 160, 255>>
    /\ decoder.output = <<8224, REPLACEMENT_CHARACTER>>

(***************************************************************************)
(* C22  When a PTY reader reaches EOF or a read error, the session is      *)
(* removed from the session map and terminal-exit:<terminal_id> fires      *)
(* exactly once for that terminal, whether the end was caused by the shell *)
(* exiting or by close.                                                    *)
(***************************************************************************)
RECURSIVE CountEvents(_, _)
CountEvents(events, name) ==
    IF events = <<>> THEN 0
    ELSE (IF Head(events).event = name THEN 1 ELSE 0) + CountEvents(Tail(events), name)

ExitEvents(t) == CountEvents(terminal[t].events, "terminal-exit")

\* terminal-exit never fires before the reader left its loop and never
\* twice; a reader that left its loop gets to its end, and then the event
\* has fired once, as the last event of the terminal, and the session is
\* not in the map.
C22_ExitOnceAndRemoved ==
    /\ [](\A t \in TerminalIds :
            /\ ExitEvents(t) <= 1
            /\ terminal[t].reader \in {"none", "loop", "exit"} => ExitEvents(t) = 0
            /\ terminal[t].reader \in {"remove", "done"} =>
                  /\ ExitEvents(t) = 1
                  /\ terminal[t].events[Len(terminal[t].events)].event = "terminal-exit"
            /\ terminal[t].reader = "done" => t \notin sessions)
    /\ \A t \in TerminalIds :
          (terminal[t].reader = "exit") ~> (terminal[t].reader = "done")

\* A reader ended after close_embedded_terminal took the session and killed
\* the child; the terminal had emitted output before.
C22_Witness ==
    \E t \in TerminalIds, k \in CloseCallers :
        /\ terminal[t].reader = "done"
        /\ closer[k].pc = "done" /\ closer[k].found
        /\ ExitEvents(t) = 1
        /\ Len(terminal[t].events) >= 2
        /\ t \notin sessions

(***************************************************************************)
(* C23  For every close call on a terminal that was started with a         *)
(* persistent_session_id, with terminate_persistent_session true or        *)
(* omitted, the external multiplexer session is killed, in every           *)
(* interleaving of the close call with the reader thread.                  *)
(***************************************************************************)
\* Once such a close call has returned, and it is the only close call made,
\* the tmux session of the terminal is gone.
C23_CloseKillsMultiplexerSession ==
    \A k \in CloseCallers :
        (/\ closer[k].pc = "done"
         /\ closer[k].terminate \in {<<>>, <<TRUE>>}
         /\ terminal[closer[k].terminal_id].persistent_session_id # ""
         /\ \A other \in CloseCallers \ {k} : closer[other].pc = "idle")
        => terminal[closer[k].terminal_id].persistent_session_id \notin tmux_sessions

(***************************************************************************)
(* C27  When the PTY master delivers the bytes [0xE2, 0x94] in one read    *)
(* and [0x94, 0x20, 'O', 'K'] in the next, there are two                   *)
(* terminal-output:<id> emissions: the empty string, then the string       *)
(* U+2514 followed by " OK".                                               *)
(***************************************************************************)
\* The payloads of the terminal-output events of a terminal, in emit order.
OutputPayloads(t) ==
    LET outputs == SelectSeq(terminal[t].events, LAMBDA e : e.event = "terminal-output")
    IN [i \in 1..Len(outputs) |-> outputs[i].payload]

\* The reader thread of t has made exactly the two reads of the scenario.
ReadSplitBoxDrawing(t) ==
    terminal[t].reads = << <<226, 148>>, <<148, 32, 79, 75>> >>

\* As stated: two emissions, the empty string first.
C27_TwoEmissions ==
    \A t \in TerminalIds :
        ReadSplitBoxDrawing(t) =>
            OutputPayloads(t) = << <<>>, <<9492, 32, 79, 75>> >>

\* Amended: the first read emits nothing, as push returns the empty string
\* and the reader thread emits no empty chunk; the second read emits the one
\* chunk U+2514 " OK".  No terminal-output event ever carries the empty
\* string.
C27_AmendedOneEmission ==
    \A t \in TerminalIds :
        /\ (terminal[t].reads = << <<226, 148>> >> /\ terminal[t].reader = "loop")
              => OutputPayloads(t) = <<>>
        /\ ReadSplitBoxDrawing(t) => OutputPayloads(t) = << <<9492, 32, 79, 75>> >>
        /\ \A i \in 1..Len(OutputPayloads(t)) : OutputPayloads(t)[i] # <<>>

\* The two reads were made and the reader thread has ended.
C27_Witness ==
    \E t \in TerminalIds :
        /\ ReadSplitBoxDrawing(t)
        /\ terminal[t].reader = "done"

(***************************************************************************)
(* C24  If the OS fails to spawn the child, the run row remains pending,   *)
(* nothing is registered in the process registry, no output or completion  *)
(* event is emitted, and the caller receives the error.                    *)
(***************************************************************************)
\* From the moment spawn_agent_system returned the spawn error on: the row
\* is pending without pid and completed_at, the registry has no entry of
\* the run, there is no child, no reader task that could emit output, no
\* monitor task, and no agent-complete or agent-cancelled event.
C24_SpawnFailureLeavesPending ==
    \A r \in RunIds :
        spawner[r] = "spawn_failed" =>
            /\ agent_runs[r].status = "pending"
            /\ agent_runs[r].pid = NullPid
            /\ agent_runs[r].completed_at = FALSE
            /\ r \notin registry
            /\ child[r] = NoChild
            /\ stdout_task[r].pc = "none"
            /\ monitor[r] = IdleMonitor
            /\ complete_events[r] = <<>>
            /\ cancelled_events[r] = 0

\* The spawn failed and a later kill_agent_session call for the run has
\* returned.
C24_Witness ==
    \E r \in RunIds :
        /\ spawner[r] = "spawn_failed"
        /\ kill_log # <<>>
        /\ kill_log[1].run = r


(***************************************************************************)
(* C28: for every provider and every argv builder, a model that is the     *)
(* empty string, or that equals "default" after trimming and lowercasing,  *)
(* yields an argv with no --model argument.                                *)
(***************************************************************************)
IsModelFlag(arg) == arg = Lit("--model") \/ arg = Str(<<"-", "-", "m", "o", "d", "e", "l">>)

ModelMeansDefault(model) ==
    model = <<>> \/ to_ascii_lowercase(str_trim(model)) = Default

C28_NoModelArgForDefault ==
    (argv.builder # "" /\ argv.ok /\ ModelMeansDefault(argv.model))
        => ~ \E i \in 1..Len(argv.args) : IsModelFlag(argv.args[i])


(***************************************************************************)
(* C29: the Stream Normalizer is idempotent under replay: for every        *)
(* adapter and every line on which normalize yields an envelope,           *)
(* normalizing that envelope again with the same adapter returns the same  *)
(* envelope unchanged.                                                     *)
(***************************************************************************)
C29_NormalizeIdempotent ==
    normalized.replayed => normalized.again = normalized.envelope

\* C29 as the code has it: replay returns the envelope unchanged with the
\* ClaudeJson and TextWrapped adapters; with the CodexJson adapter an
\* envelope that normalize produced is dropped when normalized again.
C29_AmendedIdempotentExceptCodex ==
    normalized.replayed =>
        IF stream_adapter(normalized.provider_id) = "CodexJson"
        THEN normalized.again = <<>>
        ELSE normalized.again = normalized.envelope

C29_Witness ==
    /\ normalized.replayed
    /\ stream_adapter(normalized.provider_id) = "TextWrapped"
    /\ normalized.envelope # <<normalized.line>>
    /\ normalized.again = normalized.envelope

(***************************************************************************)
(* C30: with the ClaudeJson or TextWrapped adapter a stdout line is passed *)
(* through unchanged exactly when it parses as JSON with a string          *)
(* top-level type and a message.content field; every other line is         *)
(* wrapped as an assistant text envelope.                                  *)
(***************************************************************************)
\* The line is one JSON document, blanks around it at most, whose value is
\* an object with a string `type` and an object `message` holding `content`.
HasField(value, key) ==
    value.kind = "obj" /\ \E i \in 1..Len(value.fields) : value.fields[i][1] = key

FieldOf(value, key) ==
    value.fields[CHOOSE i \in 1..Len(value.fields) : value.fields[i][1] = key][2]

ParsesWithStreamShape(line) ==
    \E i \in 1..Len(line) :
        /\ line[i].t = "json"
        /\ \A k \in 1..Len(line) : k # i => line[k].t = "ws"
        /\ LET value == line[i].j[1] IN
           /\ HasField(value, "type")
           /\ FieldOf(value, "type").kind = "str"
           /\ HasField(value, "message")
           /\ HasField(FieldOf(value, "message"), "content")

PassedThroughOrWrapped ==
    /\ (normalized.envelope = <<normalized.line>>) <=> ParsesWithStreamShape(normalized.line)
    /\ ~ParsesWithStreamShape(normalized.line)
           => normalized.envelope = <<wrap_as_assistant_text(normalized.line)>>

C30_PassThroughIffStreamShape ==
    (normalized.provider_id # ""
     /\ stream_adapter(normalized.provider_id) \in {"ClaudeJson", "TextWrapped"})
        => PassedThroughOrWrapped

\* C30 as the code has it: the rule holds with the TextWrapped adapter;
\* with the ClaudeJson adapter every line is passed through unchanged.
C30_AmendedTextWrappedOnly ==
    normalized.provider_id # "" =>
        /\ stream_adapter(normalized.provider_id) = "TextWrapped" => PassedThroughOrWrapped
        /\ stream_adapter(normalized.provider_id) = "ClaudeJson"
               => normalized.envelope = <<normalized.line>>

C30_Witness ==
    /\ normalized.provider_id # ""
    /\ stream_adapter(normalized.provider_id) = "TextWrapped"
    /\ ParsesWithStreamShape(normalized.line)
    /\ Len(normalized.line) > 1
    /\ normalized.envelope = <<normalized.line>>


(***************************************************************************)
(* C25: within one run, the envelopes that come from stdout are delivered  *)
(* on the run-scoped output channel in the same order as the               *)
(* corresponding lines were written to the child's stdout pipe.            *)
(***************************************************************************)
StdoutEvents == SelectSeq(channels.run_output, LAMBDA e : e.source = "stdout")

C25_StdoutOrderPreserved ==
    /\ \A i, j \in 1..Len(StdoutEvents) :
           i < j => StdoutEvents[i].line_no < StdoutEvents[j].line_no
    /\ \A i \in 1..Len(StdoutEvents) :
           /\ StdoutEvents[i].line_no \in 1..stream.stdout_read
           /\ <<StdoutEvents[i].payload>> =
                  transform_provider_output(stream.provider_id,
                                            stream.stdout[StdoutEvents[i].line_no])

\* Three lines were written and read; the adapter dropped the second, and
\* the envelopes of the first and the third were delivered in that order.
C25_Witness ==
    /\ stream.stdout_read = 3
    /\ Len(StdoutEvents) = 2
    /\ StdoutEvents[1].line_no = 1
    /\ StdoutEvents[2].line_no = 3
    /\ StdoutEvents[1].payload # StdoutEvents[2].payload


(***************************************************************************)
(* C31: every broadcast subscriber receives envelopes in strictly          *)
(* increasing sequence order, also when several tasks call publish_event   *)
(* or publish_snapshot concurrently.                                       *)
(***************************************************************************)
ForwardedFrames(c) ==
    SelectSeq(ws[c].sent, LAMBDA e : e.event_type \notin LoopBuiltTypes)

C31_SubscriberOrder ==
    \A c \in WsClients :
        \A i, j \in 1..Len(ForwardedFrames(c)) :
            i < j => ForwardedFrames(c)[i].sequence < ForwardedFrames(c)[j].sequence

(***************************************************************************)
(* C32: the sequence of the snapshot latest_snapshot returns never         *)
(* decreases: once a snapshot with sequence N is stored, no snapshot with  *)
(* a sequence below N is stored later.                                     *)
(***************************************************************************)
C32_SnapshotNeverDecreases == [][snapshot' >= snapshot]_vars

(***************************************************************************)
(* C33: a WebSocket client that connects with since = s and is not sent    *)
(* sync.resnapshot_required misses nothing: every envelope with a sequence *)
(* above s is delivered to it, as long as it neither lags nor disconnects. *)
(***************************************************************************)
ToldToResnapshot(c) ==
    \E k \in 1..Len(ws[c].sent) : ws[c].sent[k].event_type = "sync.resnapshot_required"

\* The loop runs and has forwarded all the channel holds.
CaughtUp(c) == ws[c].pc = "loop" /\ ws[c].cursor = Len(event_tx)

C33_NothingMissed ==
    \A c \in WsClients :
        (CaughtUp(c) /\ ~ToldToResnapshot(c)) =>
            \A i \in 1..Len(event_tx) :
                event_tx[i].sequence > ws[c].since =>
                    \E k \in 1..Len(ws[c].sent) : ws[c].sent[k] = event_tx[i]


(***************************************************************************)
(* C34: every run whose child process was spawned eventually gets exactly  *)
(* one agent-complete:<run_id> event and is removed from the process       *)
(* registry, whatever the interleaving of child exit, the timeout,         *)
(* kill_agent_session and errors that occur after the spawn.               *)
(***************************************************************************)
C34_ExactlyOneCompletion ==
    \A r \in RunIds :
        /\ [](Len(complete_events[r]) <= 1)
        /\ [](child[r].state # "none"
                 => <>(Len(complete_events[r]) = 1 /\ r \notin registry))


(***************************************************************************)
(* C35: each provider session started by spawn_provider_session_process    *)
(* gets exactly one provider-session-complete event, and that event        *)
(* carries its own session id and the exit status of its own child, also   *)
(* when a newer session is started or cancel_provider_session is called    *)
(* before it finishes.  Stated for a session whose id was read from its    *)
(* init line, once its wait task has ended and no cancel call is running.  *)
(***************************************************************************)
CompletionsOf(sid) == SelectSeq(session_events, LAMBDA e : e.session_id = sid)

\* The event reports the exit of child p: the status computed from its exit
\* status, or cancelled for a child that ended by a signal.
CarriesStatusOf(e, p) ==
    \/ e.status = completion_status_from_exit_status(provider_session[p].status)
    \/ e.status = "cancelled" /\ provider_session[p].status \in TermExitStatuses

SessionFinished(p) ==
    /\ provider_session[p].session_id_holder = <<SessionIdOf(p)>>
    /\ provider_session[p].wait_task = "done"
    /\ canceller.pc = "idle"

C35_OneCompletionPerSession ==
    \A p \in SessionProcs :
        SessionFinished(p) =>
            /\ Len(CompletionsOf(SessionIdOf(p))) = 1
            /\ CarriesStatusOf(CompletionsOf(SessionIdOf(p))[1], p)


(***************************************************************************)
(* C36: every discover_agent call eventually returns, and a key placed in  *)
(* the in-flight set is always removed again, also when the probing task   *)
(* fails or the caller that claimed the slot is dropped before the probe   *)
(* finishes.                                                               *)
(***************************************************************************)
InDiscoverAgent(c) == discover[c].pc \in {"lock", "waiting", "probing", "store", "notify"}

C36_DiscoverReturns ==
    /\ \A c \in DiscoverCallers :
          InDiscoverAgent(c) ~> discover[c].pc \in {"returned", "dropped"}
    /\ \A key \in ProviderKeys : (key \in in_flight) ~> (key \notin in_flight)


(***************************************************************************)
(* C37: the PTY manager cannot deadlock: a write_embedded_terminal_input   *)
(* call that is blocked writing to the PTY while it holds the session lock *)
(* never keeps the reader thread from draining the PTY's output.           *)
(***************************************************************************)
\* The write call holds the session lock and its write waits for room in
\* the input queue.
WriterBlocked ==
    /\ pty.session_lock = "writer"
    /\ pty.writer.left > 0
    /\ pty.input = PtyInputCapacity

\* The reader thread waits for the session lock with output left to read.
ReaderKeptFromDraining == pty.reader = "mark" /\ pty.session_lock = "writer"

\* The shell is blocked printing, so it takes no input.
ShellBlocked == pty.shell_pending > 0 /\ pty.output = PtyOutputCapacity

C37_NoPtyDeadlock == ~(WriterBlocked /\ ReaderKeptFromDraining /\ ShellBlocked)


(***************************************************************************)
(* C38: a sync during which cancel_usage_index_sync was called ends with   *)
(* status cancelled and not completed, wherever the request falls between  *)
(* try_start and the end of the last file.  Stated for a request the read  *)
(* loop of process_file has seen: it fell inside a file, and the sync did  *)
(* not fail.                                                               *)
(***************************************************************************)
C38_CancelEndsCancelled ==
    \A t \in SyncCallers :
        (sync_task[t].pc = "finish" /\ sync_task[t].cancel_seen /\ ~sync_task[t].failed)
            => sync_task[t].cancelled


(***************************************************************************)
(* C39: after a sync that ran to its end without a cancel request, with no *)
(* transcript changed since it started, every usage event (by event_uid)   *)
(* of a line of a transcript on disk has a row in usage_events, also when  *)
(* another file holding the same event_uid was truncated or rewritten.     *)
(* Stated for transcripts that were not changed under a running scan.      *)
(***************************************************************************)
AfterCompletedSync ==
    /\ ~is_running
    /\ prev_run.completed
    /\ ~prev_run.cancel_requested
    /\ prev_run.edits_at_start = edits
    /\ \A p \in SourcePaths : ~stale[p]

C39_EveryEventOnDiskHasRow ==
    AfterCompletedSync =>
        \A p \in SourcePaths :
            \A i \in 1..Len(transcripts[p].lines) :
                IsUsageLine(transcripts[p].lines[i]) =>
                    \E row \in usage_events :
                        row.event_uid = parse_usage_event(transcripts[p].lines[i], p, i).event_uid


(***************************************************************************)
(* C40: every provider process started over a web-server WebSocket         *)
(* connection stays cancellable through the cancel endpoint while it runs  *)
(* and is killed when that connection closes, also when several execution  *)
(* requests were sent on the same connection.                              *)
(***************************************************************************)
\* The cancel endpoint reaches the watch channel of request r, or the
\* request was already told to cancel.
Cancellable(r) == web_socket.active_cancellations = r \/ web_request[r].cancel

C40_CancellableAndKilledOnClose ==
    \A r \in WebRequests :
        web_request[r].child = "running" =>
            /\ web_socket.open => Cancellable(r)
            /\ web_socket.closed => web_request[r].cancel

====
